---- MODULE Spec2Model ----
(***************************************************************************)
(* The TestRail transport client (mcp_testrail/testrail_client.py) and the *)
(* tool registry over it (mcp_testrail/mcp_server.py) as a state machine.  *)
(*                                                                         *)
(* In Spec one call is in progress at a time (ConcSpec has two tool calls   *)
(* in progress at once).  A call builds its request and hands              *)
(* it to the HTTP session (pc = "sent"); the session puts it on the wire   *)
(* (pc = "waiting"); the remote answers and the client classifies the      *)
(* answer, the composite helper and the tool wrapper finish (pc = "done"); *)
(* the caller takes the result (pc = "idle").                              *)
(*                                                                         *)
(* Python values are tagged records: [none |-> TRUE], [int |-> n],          *)
(* [str |-> text], [list |-> <<values>>], [dict |-> key :> value @@ ...].   *)
(* A text is the sequence of the fragments whose concatenation is the      *)
(* string.  In URLs, paths and joined lists every "/" and "," and every    *)
(* decimal digit is a fragment of its own, so that two such texts are      *)
(* equal exactly when the strings are.                                     *)
(***************************************************************************)
EXTENDS Integers, Sequences, FiniteSets, TLC

VARIABLES env, phase, ended, registered, session, closes, released, instances,
          settings, client, pc, tool, method, args, helper, kwargs, response, outcome, result, nreq,
          uploaded, threads

\* the process and the registry: the environment, how far main has come, how
\* it ended, the tools registered, the HTTP session of the client, the calls
\* of close and the outcome of the last
server == <<env, phase, ended, registered, session, closes, released>>

\* uploaded: the session has been handed a file upload; threads: the tool
\* invocations that run at the same time, each with its locals
vars == <<server, instances,
          settings, client, pc, tool, method, args, helper, kwargs, response, outcome, result, nreq,
          uploaded, threads>>

-----------------------------------------------------------------------------
(* Bounds of the model *)

\* the most optional filters one call supplies
MaxSupplied == 2
\* the most entries a listing response carries
MaxEntries == 2
\* the most payloads one bulk_add_cases call is given
MaxCases == 3
\* the longest max_wait_seconds a wait_for_report call is given
MaxWait == 3
\* the most times the client is released
MaxReleases == 3

\* values a caller supplies for an integer filter or flag
ScalarValues == {0, 7}
\* values a caller supplies for a list filter
ListValues == {<<>>, <<5>>, <<1, 5, 3>>, <<12, 12>>}
\* values of the id segments of an endpoint
Ids == {1, 12}
\* base URLs a client is constructed with: the same URL without and with the
\* trailing separator
BaseStems == {<<"https:", "/", "/", "x.testrail.io">>}
BaseUrls == BaseStems \cup {b \o <<"/">> : b \in BaseStems}
\* request bodies a caller supplies
DataValues == {[dict |-> <<>>], [dict |-> ("title" :> [str |-> <<"Login works">>])]}
\* paths of the files a caller attaches
FilePaths == {<<"notes.txt">>, <<"/", "tmp", "/", "shot.png">>, <<"out", "/">>}
\* the max_wait_seconds and the poll_interval a caller gives wait_for_report,
\* and the seconds a run_report request takes
WaitLimits == {0 - 1, 0, 2, MaxWait}
PollIntervals == {1, 2}
Latencies == {0, 1}
\* how httpx.Headers.items() spells the keys it yields
HeaderKeyCases == {"lower", "as_set"}
\* status codes the remote answers with
Statuses == {200, 302, 400, 500}
\* names of the entries of a listing, and names a caller searches for
EntryNames == {"Alpha", "Beta"}
SearchNames == {"Alpha", "Beta", "Gamma"}
\* text of the error field of a remote error body
ErrorTexts == {<<"Field :name is not a valid test case field.">>}

-----------------------------------------------------------------------------
(* Python values *)

PyNone == [none |-> TRUE]
PyInt(n) == [int |-> n]
PyStr(s) == [str |-> s]
PyList(s) == [list |-> s]
PyDict(f) == [dict |-> f]

IsNone(x) == "none" \in DOMAIN x
IsInt(x) == "int" \in DOMAIN x
IsStr(x) == "str" \in DOMAIN x
IsList(x) == "list" \in DOMAIN x
IsDict(x) == "dict" \in DOMAIN x

PyIntList(s) == PyList([i \in 1..Len(s) |-> PyInt(s[i])])

\* bool(x): None, 0, "", [] and {} are false
Truthy(x) ==
  CASE IsNone(x) -> FALSE
    [] IsInt(x) -> x.int # 0
    [] IsStr(x) -> Len(x.str) > 0
    [] IsList(x) -> Len(x.list) > 0
    [] IsDict(x) -> DOMAIN x.dict # {}

\* x == y
PyEq(x, y) == DOMAIN x = DOMAIN y /\ x = y

-----------------------------------------------------------------------------
(* Texts *)

Digits == <<"0", "1", "2", "3", "4", "5", "6", "7", "8", "9">>

\* str(n) of an int: its decimal digits, most significant first
RECURSIVE Str(_)
Str(n) ==
  IF n < 0 THEN <<"-">> \o Str(0 - n)
  ELSE IF n < 10 THEN <<Digits[n + 1]>>
  ELSE Str(n \div 10) \o <<Digits[(n % 10) + 1]>>

\* sep.join(texts)
RECURSIVE Join(_, _)
Join(sep, texts) ==
  IF Len(texts) = 0 THEN <<>>
  ELSE IF Len(texts) = 1 THEN texts[1]
  ELSE texts[1] \o sep \o Join(sep, Tail(texts))

\* ",".join(map(str, xs)) of a list of ints
JoinInts(xs) == Join(<<",">>, [i \in 1..Len(xs.list) |-> Str(xs.list[i].int)])

\* s.endswith(c) for a one-character c
EndsWith(s, c) == Len(s) > 0 /\ s[Len(s)] = c

\* sub in s
Contains(s, sub) ==
  \E i \in 1..(Len(s) - Len(sub) + 1) : SubSeq(s, i, i + Len(sub) - 1) = sub

\* s.split("/")[-1]: what follows the last "/"
LastSegment(s) ==
  LET slashes == {i \in 1..Len(s) : s[i] = "/"}
      last == IF slashes = {} THEN 0 ELSE CHOOSE i \in slashes : \A j \in slashes : j <= i
  IN  SubSeq(s, last + 1, Len(s))

\* s.lower(), fragment by fragment, for the fragments of the failure messages
LowerFragment(f) ==
  CASE f = "Still Being Generated" -> "still being generated"
    [] f = "Report is " -> "report is "
    [] f = "Report failed: " -> "report failed: "
    [] f = "Template not found" -> "template not found"
    [] f = "Unknown error" -> "unknown error"
    [] f = "TestRail API returned HTTP " -> "testrail api returned http "
    [] f = "<html>Bad Gateway</html>" -> "<html>bad gateway</html>"
    [] f = "All connection attempts failed" -> "all connection attempts failed"
    [] OTHER -> f
Lower(s) == [i \in 1..Len(s) |-> LowerFragment(s[i])]

\* str(x) of a value inside an f-string
PyToStr(x) ==
  CASE IsStr(x) -> x.str
    [] IsInt(x) -> Str(x.int)
    [] IsNone(x) -> <<"None">>
    [] OTHER -> <<"<repr>">>

-----------------------------------------------------------------------------
(* TestRailClient.__init__ and TestRailClient._send_request *)

\* a key that a dict or a keyword-argument set does not hold
Absent == [absent |-> TRUE]
IsAbsent(x) == "absent" \in DOMAIN x

ApiPath == <<"index.php?", "/", "api", "/", "v2", "/">>

\* base64 of "username:api_key": an encoding that can be undone
B64(s) == <<"b64<">> \o s \o <<">">>

\* __init__ without the test for a trailing separator
ClientInitAppendsAlways(base_url, username, api_key) ==
  LET auth == B64(username \o <<":">> \o api_key)
  IN  [base_url |-> base_url \o <<"/">> \o ApiPath,
       auth |-> auth,
       headers |-> ("Content-Type" :> <<"application/json">>)
                   @@ ("Authorization" :> (<<"Basic ">> \o auth))]

ClientInit(base_url, username, api_key) ==
  LET base == IF ~EndsWith(base_url, "/") THEN base_url \o <<"/">> ELSE base_url
      auth == B64(username \o <<":">> \o api_key)
  IN  [base_url |-> base \o ApiPath,
       auth |-> auth,
       headers |-> ("Content-Type" :> <<"application/json">>)
                   @@ ("Authorization" :> (<<"Basic ">> \o auth))]

LowerCase(name) ==
  CASE name = "Content-Type" -> "content-type"
    [] name = "Authorization" -> "authorization"
    [] OTHER -> name

\* a header mapping with its keys spelled in lower case
LowerKeys(h) ==
  [k \in {LowerCase(n) : n \in DOMAIN h} |-> h[CHOOSE n \in DOMAIN h : LowerCase(n) = k]]

\* self.session.headers.items(): httpx is not part of the repository; it yields
\* the keys either as they were set or in lower case
HeaderItems(h, keycase) == IF keycase = "lower" THEN LowerKeys(h) ELSE h

\* the headers built for a file upload
UploadHeaders(h, keycase) ==
  LET items == HeaderItems(h, keycase)
  IN  [k \in {n \in DOMAIN items : n # "Content-Type"} |-> items[k]]

\* the keyword arguments _send_request hands to self.session.request
SendRequest(c, http, endpoint, data, files, params, keycase) ==
  LET url == c.base_url \o endpoint
      upload == Truthy(files)
  IN  [method |-> http,
       url |-> url,
       params |-> IF Truthy(params) THEN params ELSE Absent,
       headers |-> IF upload THEN PyDict(UploadHeaders(c.headers, keycase)) ELSE Absent,
       files |-> IF upload THEN files ELSE Absent,
       data |-> IF upload /\ Truthy(data) THEN data ELSE Absent,
       json |-> IF ~upload /\ Truthy(data) THEN data ELSE Absent]

\* a _send_request that takes the content type out of the session's headers
\* for a file upload
SessionHeadersAfterPop(h, req) ==
  IF IsAbsent(req.files) THEN h ELSE [k \in DOMAIN h \ {"Content-Type"} |-> h[k]]

\* self.session.headers after _send_request has built the request req: the
\* headers of a file upload are a new dict, the session's own are not assigned
SessionHeadersAfter(h, req) == h

\* self.session.request(**kwargs): the session sends its default headers with
\* every request, a header of the request replacing the default of the same
\* name (names compare without regard to case)
WireHeaders(c, kw) ==
  LET base == LowerKeys(c.headers)
      own == IF IsAbsent(kw.headers) THEN <<>> ELSE LowerKeys(kw.headers.dict)
  IN  [k \in DOMAIN base \cup DOMAIN own |-> IF k \in DOMAIN own THEN own[k] ELSE base[k]]


-----------------------------------------------------------------------------
(* The methods of TestRailClient that are one call of _send_request: the HTTP
   method, the endpoint path, the number of id segments after it, whether data,
   files and params are passed, and for each filter tested in the method body,
   in the order of the code: its key, the test (truthy: "if x:", not_none:
   "if x is not None:", always: passed unconditionally), the encoding (plain:
   the value itself, join: ",".join(map(str, x))) and the declared type *)

Methods == [
  get_case |-> [http |-> "GET", path |-> "get_case", ids |-> 1, data |-> FALSE, files |-> FALSE,
      params |-> FALSE, filters |-> <<>>],
  get_cases |-> [http |-> "GET", path |-> "get_cases", ids |-> 1, data |-> FALSE, files |-> FALSE,
      params |-> TRUE, filters |-> <<<<"suite_id", "truthy", "plain", "int">>,
        <<"section_id", "truthy", "plain", "int">>,
        <<"created_after", "truthy", "plain", "int">>,
        <<"created_before", "truthy", "plain", "int">>,
        <<"created_by", "truthy", "join", "list">>,
        <<"milestone_id", "truthy", "join", "list">>,
        <<"priority_id", "truthy", "join", "list">>,
        <<"template_id", "truthy", "join", "list">>,
        <<"type_id", "truthy", "join", "list">>,
        <<"updated_after", "truthy", "plain", "int">>,
        <<"updated_before", "truthy", "plain", "int">>,
        <<"updated_by", "truthy", "join", "list">>,
        <<"limit", "truthy", "plain", "int">>,
        <<"offset", "truthy", "plain", "int">>>>],
  add_case |-> [http |-> "POST", path |-> "add_case", ids |-> 1, data |-> TRUE, files |-> FALSE,
      params |-> FALSE, filters |-> <<>>],
  copy_cases_to_section |-> [http |-> "POST", path |-> "copy_cases_to_section", ids |-> 1, data |-> TRUE, files |-> FALSE,
      params |-> FALSE, filters |-> <<>>],
  update_case |-> [http |-> "POST", path |-> "update_case", ids |-> 1, data |-> TRUE, files |-> FALSE,
      params |-> FALSE, filters |-> <<>>],
  update_cases |-> [http |-> "POST", path |-> "update_cases", ids |-> 1, data |-> TRUE, files |-> FALSE,
      params |-> FALSE, filters |-> <<>>],
  move_cases_to_section |-> [http |-> "POST", path |-> "move_cases_to_section", ids |-> 1, data |-> TRUE, files |-> FALSE,
      params |-> FALSE, filters |-> <<>>],
  delete_case |-> [http |-> "POST", path |-> "delete_case", ids |-> 1, data |-> FALSE, files |-> FALSE,
      params |-> TRUE, filters |-> <<<<"soft", "not_none", "plain", "int">>>>],
  delete_cases |-> [http |-> "POST", path |-> "delete_cases", ids |-> 1, data |-> TRUE, files |-> FALSE,
      params |-> TRUE, filters |-> <<<<"soft", "not_none", "plain", "int">>>>],
  get_case_fields |-> [http |-> "GET", path |-> "get_case_fields", ids |-> 0, data |-> FALSE, files |-> FALSE,
      params |-> FALSE, filters |-> <<>>],
  add_case_field |-> [http |-> "POST", path |-> "add_case_field", ids |-> 0, data |-> TRUE, files |-> FALSE,
      params |-> FALSE, filters |-> <<>>],
  get_case_types |-> [http |-> "GET", path |-> "get_case_types", ids |-> 0, data |-> FALSE, files |-> FALSE,
      params |-> FALSE, filters |-> <<>>],
  get_configs |-> [http |-> "GET", path |-> "get_configs", ids |-> 1, data |-> FALSE, files |-> FALSE,
      params |-> FALSE, filters |-> <<>>],
  add_config_group |-> [http |-> "POST", path |-> "add_config_group", ids |-> 1, data |-> TRUE, files |-> FALSE,
      params |-> FALSE, filters |-> <<>>],
  add_config |-> [http |-> "POST", path |-> "add_config", ids |-> 1, data |-> TRUE, files |-> FALSE,
      params |-> FALSE, filters |-> <<>>],
  update_config_group |-> [http |-> "POST", path |-> "update_config_group", ids |-> 1, data |-> TRUE, files |-> FALSE,
      params |-> FALSE, filters |-> <<>>],
  update_config |-> [http |-> "POST", path |-> "update_config", ids |-> 1, data |-> TRUE, files |-> FALSE,
      params |-> FALSE, filters |-> <<>>],
  delete_config_group |-> [http |-> "POST", path |-> "delete_config_group", ids |-> 1, data |-> FALSE, files |-> FALSE,
      params |-> FALSE, filters |-> <<>>],
  delete_config |-> [http |-> "POST", path |-> "delete_config", ids |-> 1, data |-> FALSE, files |-> FALSE,
      params |-> FALSE, filters |-> <<>>],
  get_milestone |-> [http |-> "GET", path |-> "get_milestone", ids |-> 1, data |-> FALSE, files |-> FALSE,
      params |-> FALSE, filters |-> <<>>],
  get_milestones |-> [http |-> "GET", path |-> "get_milestones", ids |-> 1, data |-> FALSE, files |-> FALSE,
      params |-> TRUE, filters |-> <<<<"is_completed", "not_none", "plain", "int">>,
        <<"is_started", "not_none", "plain", "int">>,
        <<"limit", "truthy", "plain", "int">>,
        <<"offset", "truthy", "plain", "int">>>>],
  add_milestone |-> [http |-> "POST", path |-> "add_milestone", ids |-> 1, data |-> TRUE, files |-> FALSE,
      params |-> FALSE, filters |-> <<>>],
  update_milestone |-> [http |-> "POST", path |-> "update_milestone", ids |-> 1, data |-> TRUE, files |-> FALSE,
      params |-> FALSE, filters |-> <<>>],
  delete_milestone |-> [http |-> "POST", path |-> "delete_milestone", ids |-> 1, data |-> FALSE, files |-> FALSE,
      params |-> FALSE, filters |-> <<>>],
  get_plan |-> [http |-> "GET", path |-> "get_plan", ids |-> 1, data |-> FALSE, files |-> FALSE,
      params |-> FALSE, filters |-> <<>>],
  get_plans |-> [http |-> "GET", path |-> "get_plans", ids |-> 1, data |-> FALSE, files |-> FALSE,
      params |-> TRUE, filters |-> <<<<"created_after", "truthy", "plain", "int">>,
        <<"created_before", "truthy", "plain", "int">>,
        <<"created_by", "truthy", "join", "list">>,
        <<"is_completed", "not_none", "plain", "int">>,
        <<"limit", "truthy", "plain", "int">>,
        <<"milestone_id", "truthy", "join", "list">>,
        <<"offset", "truthy", "plain", "int">>>>],
  add_plan |-> [http |-> "POST", path |-> "add_plan", ids |-> 1, data |-> TRUE, files |-> FALSE,
      params |-> FALSE, filters |-> <<>>],
  add_plan_entry |-> [http |-> "POST", path |-> "add_plan_entry", ids |-> 1, data |-> TRUE, files |-> FALSE,
      params |-> FALSE, filters |-> <<>>],
  update_plan |-> [http |-> "POST", path |-> "update_plan", ids |-> 1, data |-> TRUE, files |-> FALSE,
      params |-> FALSE, filters |-> <<>>],
  update_plan_entry |-> [http |-> "POST", path |-> "update_plan_entry", ids |-> 2, data |-> TRUE, files |-> FALSE,
      params |-> FALSE, filters |-> <<>>],
  close_plan |-> [http |-> "POST", path |-> "close_plan", ids |-> 1, data |-> FALSE, files |-> FALSE,
      params |-> FALSE, filters |-> <<>>],
  delete_plan |-> [http |-> "POST", path |-> "delete_plan", ids |-> 1, data |-> FALSE, files |-> FALSE,
      params |-> FALSE, filters |-> <<>>],
  delete_plan_entry |-> [http |-> "POST", path |-> "delete_plan_entry", ids |-> 2, data |-> FALSE, files |-> FALSE,
      params |-> FALSE, filters |-> <<>>],
  get_priorities |-> [http |-> "GET", path |-> "get_priorities", ids |-> 0, data |-> FALSE, files |-> FALSE,
      params |-> FALSE, filters |-> <<>>],
  get_project |-> [http |-> "GET", path |-> "get_project", ids |-> 1, data |-> FALSE, files |-> FALSE,
      params |-> FALSE, filters |-> <<>>],
  get_projects |-> [http |-> "GET", path |-> "get_projects", ids |-> 0, data |-> FALSE, files |-> FALSE,
      params |-> TRUE, filters |-> <<<<"is_completed", "not_none", "plain", "int">>,
        <<"limit", "truthy", "plain", "int">>,
        <<"offset", "truthy", "plain", "int">>>>],
  add_project |-> [http |-> "POST", path |-> "add_project", ids |-> 0, data |-> TRUE, files |-> FALSE,
      params |-> FALSE, filters |-> <<>>],
  update_project |-> [http |-> "POST", path |-> "update_project", ids |-> 1, data |-> TRUE, files |-> FALSE,
      params |-> FALSE, filters |-> <<>>],
  delete_project |-> [http |-> "POST", path |-> "delete_project", ids |-> 1, data |-> FALSE, files |-> FALSE,
      params |-> FALSE, filters |-> <<>>],
  get_reports |-> [http |-> "GET", path |-> "get_reports", ids |-> 1, data |-> FALSE, files |-> FALSE,
      params |-> FALSE, filters |-> <<>>],
  run_report |-> [http |-> "GET", path |-> "run_report", ids |-> 1, data |-> FALSE, files |-> FALSE,
      params |-> FALSE, filters |-> <<>>],
  get_results |-> [http |-> "GET", path |-> "get_results", ids |-> 1, data |-> FALSE, files |-> FALSE,
      params |-> TRUE, filters |-> <<<<"limit", "truthy", "plain", "int">>,
        <<"offset", "truthy", "plain", "int">>,
        <<"status_id", "truthy", "join", "list">>>>],
  get_results_for_case |-> [http |-> "GET", path |-> "get_results_for_case", ids |-> 2, data |-> FALSE, files |-> FALSE,
      params |-> TRUE, filters |-> <<<<"limit", "truthy", "plain", "int">>,
        <<"offset", "truthy", "plain", "int">>,
        <<"status_id", "truthy", "join", "list">>>>],
  get_results_for_run |-> [http |-> "GET", path |-> "get_results_for_run", ids |-> 1, data |-> FALSE, files |-> FALSE,
      params |-> TRUE, filters |-> <<<<"created_after", "truthy", "plain", "int">>,
        <<"created_before", "truthy", "plain", "int">>,
        <<"created_by", "truthy", "join", "list">>,
        <<"limit", "truthy", "plain", "int">>,
        <<"offset", "truthy", "plain", "int">>,
        <<"status_id", "truthy", "join", "list">>>>],
  add_result |-> [http |-> "POST", path |-> "add_result", ids |-> 1, data |-> TRUE, files |-> FALSE,
      params |-> FALSE, filters |-> <<>>],
  add_result_for_case |-> [http |-> "POST", path |-> "add_result_for_case", ids |-> 2, data |-> TRUE, files |-> FALSE,
      params |-> FALSE, filters |-> <<>>],
  add_results |-> [http |-> "POST", path |-> "add_results", ids |-> 1, data |-> TRUE, files |-> FALSE,
      params |-> FALSE, filters |-> <<>>],
  add_results_for_cases |-> [http |-> "POST", path |-> "add_results_for_cases", ids |-> 1, data |-> TRUE, files |-> FALSE,
      params |-> FALSE, filters |-> <<>>],
  get_result_fields |-> [http |-> "GET", path |-> "get_result_fields", ids |-> 0, data |-> FALSE, files |-> FALSE,
      params |-> FALSE, filters |-> <<>>],
  get_run |-> [http |-> "GET", path |-> "get_run", ids |-> 1, data |-> FALSE, files |-> FALSE,
      params |-> FALSE, filters |-> <<>>],
  get_runs |-> [http |-> "GET", path |-> "get_runs", ids |-> 1, data |-> FALSE, files |-> FALSE,
      params |-> TRUE, filters |-> <<<<"created_after", "truthy", "plain", "int">>,
        <<"created_before", "truthy", "plain", "int">>,
        <<"created_by", "truthy", "join", "list">>,
        <<"is_completed", "not_none", "plain", "int">>,
        <<"limit", "truthy", "plain", "int">>,
        <<"milestone_id", "truthy", "join", "list">>,
        <<"offset", "truthy", "plain", "int">>,
        <<"suite_id", "truthy", "join", "list">>>>],
  add_run |-> [http |-> "POST", path |-> "add_run", ids |-> 1, data |-> TRUE, files |-> FALSE,
      params |-> FALSE, filters |-> <<>>],
  update_run |-> [http |-> "POST", path |-> "update_run", ids |-> 1, data |-> TRUE, files |-> FALSE,
      params |-> FALSE, filters |-> <<>>],
  close_run |-> [http |-> "POST", path |-> "close_run", ids |-> 1, data |-> FALSE, files |-> FALSE,
      params |-> FALSE, filters |-> <<>>],
  delete_run |-> [http |-> "POST", path |-> "delete_run", ids |-> 1, data |-> FALSE, files |-> FALSE,
      params |-> FALSE, filters |-> <<>>],
  get_section |-> [http |-> "GET", path |-> "get_section", ids |-> 1, data |-> FALSE, files |-> FALSE,
      params |-> FALSE, filters |-> <<>>],
  get_sections |-> [http |-> "GET", path |-> "get_sections", ids |-> 1, data |-> FALSE, files |-> FALSE,
      params |-> TRUE, filters |-> <<<<"suite_id", "truthy", "plain", "int">>,
        <<"limit", "truthy", "plain", "int">>,
        <<"offset", "truthy", "plain", "int">>>>],
  add_section |-> [http |-> "POST", path |-> "add_section", ids |-> 1, data |-> TRUE, files |-> FALSE,
      params |-> FALSE, filters |-> <<>>],
  move_section |-> [http |-> "POST", path |-> "move_section", ids |-> 1, data |-> TRUE, files |-> FALSE,
      params |-> FALSE, filters |-> <<>>],
  update_section |-> [http |-> "POST", path |-> "update_section", ids |-> 1, data |-> TRUE, files |-> FALSE,
      params |-> FALSE, filters |-> <<>>],
  delete_section |-> [http |-> "POST", path |-> "delete_section", ids |-> 1, data |-> FALSE, files |-> FALSE,
      params |-> TRUE, filters |-> <<<<"soft", "not_none", "plain", "int">>>>],
  get_statuses |-> [http |-> "GET", path |-> "get_statuses", ids |-> 0, data |-> FALSE, files |-> FALSE,
      params |-> FALSE, filters |-> <<>>],
  get_suite |-> [http |-> "GET", path |-> "get_suite", ids |-> 1, data |-> FALSE, files |-> FALSE,
      params |-> FALSE, filters |-> <<>>],
  get_suites |-> [http |-> "GET", path |-> "get_suites", ids |-> 1, data |-> FALSE, files |-> FALSE,
      params |-> FALSE, filters |-> <<>>],
  add_suite |-> [http |-> "POST", path |-> "add_suite", ids |-> 1, data |-> TRUE, files |-> FALSE,
      params |-> FALSE, filters |-> <<>>],
  update_suite |-> [http |-> "POST", path |-> "update_suite", ids |-> 1, data |-> TRUE, files |-> FALSE,
      params |-> FALSE, filters |-> <<>>],
  delete_suite |-> [http |-> "POST", path |-> "delete_suite", ids |-> 1, data |-> FALSE, files |-> FALSE,
      params |-> TRUE, filters |-> <<<<"soft", "not_none", "plain", "int">>>>],
  get_templates |-> [http |-> "GET", path |-> "get_templates", ids |-> 1, data |-> FALSE, files |-> FALSE,
      params |-> FALSE, filters |-> <<>>],
  get_test |-> [http |-> "GET", path |-> "get_test", ids |-> 1, data |-> FALSE, files |-> FALSE,
      params |-> FALSE, filters |-> <<>>],
  get_tests |-> [http |-> "GET", path |-> "get_tests", ids |-> 1, data |-> FALSE, files |-> FALSE,
      params |-> TRUE, filters |-> <<<<"status_id", "truthy", "join", "list">>,
        <<"limit", "truthy", "plain", "int">>,
        <<"offset", "truthy", "plain", "int">>>>],
  get_user |-> [http |-> "GET", path |-> "get_user", ids |-> 1, data |-> FALSE, files |-> FALSE,
      params |-> FALSE, filters |-> <<>>],
  get_user_by_email |-> [http |-> "GET", path |-> "get_user_by_email", ids |-> 0, data |-> FALSE, files |-> FALSE,
      params |-> TRUE, filters |-> <<<<"email", "always", "plain", "str">>>>],
  get_users |-> [http |-> "GET", path |-> "get_users", ids |-> 0, data |-> FALSE, files |-> FALSE,
      params |-> TRUE, filters |-> <<<<"limit", "truthy", "plain", "int">>,
        <<"offset", "truthy", "plain", "int">>>>],
  get_current_user |-> [http |-> "GET", path |-> "get_current_user", ids |-> 0, data |-> FALSE, files |-> FALSE,
      params |-> FALSE, filters |-> <<>>],
  add_attachment_to_case |-> [http |-> "POST", path |-> "add_attachment_to_case", ids |-> 1, data |-> FALSE, files |-> TRUE,
      params |-> FALSE, filters |-> <<>>],
  add_attachment_to_plan |-> [http |-> "POST", path |-> "add_attachment_to_plan", ids |-> 1, data |-> FALSE, files |-> TRUE,
      params |-> FALSE, filters |-> <<>>],
  add_attachment_to_plan_entry |-> [http |-> "POST", path |-> "add_attachment_to_plan_entry", ids |-> 2, data |-> FALSE, files |-> TRUE,
      params |-> FALSE, filters |-> <<>>],
  add_attachment_to_result |-> [http |-> "POST", path |-> "add_attachment_to_result", ids |-> 1, data |-> FALSE, files |-> TRUE,
      params |-> FALSE, filters |-> <<>>],
  add_attachment_to_run |-> [http |-> "POST", path |-> "add_attachment_to_run", ids |-> 1, data |-> FALSE, files |-> TRUE,
      params |-> FALSE, filters |-> <<>>],
  delete_attachment |-> [http |-> "POST", path |-> "delete_attachment", ids |-> 1, data |-> FALSE, files |-> FALSE,
      params |-> FALSE, filters |-> <<>>],
  get_shared_step |-> [http |-> "GET", path |-> "get_shared_step", ids |-> 1, data |-> FALSE, files |-> FALSE,
      params |-> FALSE, filters |-> <<>>],
  get_shared_steps |-> [http |-> "GET", path |-> "get_shared_steps", ids |-> 1, data |-> FALSE, files |-> FALSE,
      params |-> TRUE, filters |-> <<<<"created_after", "truthy", "plain", "int">>,
        <<"created_before", "truthy", "plain", "int">>,
        <<"created_by", "truthy", "join", "list">>,
        <<"limit", "truthy", "plain", "int">>,
        <<"offset", "truthy", "plain", "int">>,
        <<"updated_after", "truthy", "plain", "int">>,
        <<"updated_before", "truthy", "plain", "int">>,
        <<"updated_by", "truthy", "join", "list">>>>],
  add_shared_step |-> [http |-> "POST", path |-> "add_shared_step", ids |-> 1, data |-> TRUE, files |-> FALSE,
      params |-> FALSE, filters |-> <<>>],
  update_shared_step |-> [http |-> "POST", path |-> "update_shared_step", ids |-> 1, data |-> TRUE, files |-> FALSE,
      params |-> FALSE, filters |-> <<>>],
  delete_shared_step |-> [http |-> "POST", path |-> "delete_shared_step", ids |-> 1, data |-> FALSE, files |-> FALSE,
      params |-> TRUE, filters |-> <<<<"soft", "not_none", "plain", "int">>>>],
  get_variables |-> [http |-> "GET", path |-> "get_variables", ids |-> 1, data |-> FALSE, files |-> FALSE,
      params |-> FALSE, filters |-> <<>>],
  add_variable |-> [http |-> "POST", path |-> "add_variable", ids |-> 1, data |-> TRUE, files |-> FALSE,
      params |-> FALSE, filters |-> <<>>],
  update_variable |-> [http |-> "POST", path |-> "update_variable", ids |-> 1, data |-> TRUE, files |-> FALSE,
      params |-> FALSE, filters |-> <<>>],
  delete_variable |-> [http |-> "POST", path |-> "delete_variable", ids |-> 1, data |-> FALSE, files |-> FALSE,
      params |-> FALSE, filters |-> <<>>],
  get_bdd_steps |-> [http |-> "GET", path |-> "get_bdd_steps", ids |-> 1, data |-> FALSE, files |-> FALSE,
      params |-> TRUE, filters |-> <<<<"limit", "truthy", "plain", "int">>,
        <<"offset", "truthy", "plain", "int">>>>],
  get_datasets |-> [http |-> "GET", path |-> "get_datasets", ids |-> 1, data |-> FALSE, files |-> FALSE,
      params |-> TRUE, filters |-> <<<<"limit", "truthy", "plain", "int">>,
        <<"offset", "truthy", "plain", "int">>>>],
  add_dataset |-> [http |-> "POST", path |-> "add_dataset", ids |-> 1, data |-> TRUE, files |-> FALSE,
      params |-> FALSE, filters |-> <<>>],
  update_dataset |-> [http |-> "POST", path |-> "update_dataset", ids |-> 1, data |-> TRUE, files |-> FALSE,
      params |-> FALSE, filters |-> <<>>],
  delete_dataset |-> [http |-> "POST", path |-> "delete_dataset", ids |-> 1, data |-> FALSE, files |-> FALSE,
      params |-> FALSE, filters |-> <<>>],
  get_groups |-> [http |-> "GET", path |-> "get_groups", ids |-> 0, data |-> FALSE, files |-> FALSE,
      params |-> FALSE, filters |-> <<>>],
  get_group |-> [http |-> "GET", path |-> "get_group", ids |-> 1, data |-> FALSE, files |-> FALSE,
      params |-> FALSE, filters |-> <<>>],
  get_roles |-> [http |-> "GET", path |-> "get_roles", ids |-> 0, data |-> FALSE, files |-> FALSE,
      params |-> FALSE, filters |-> <<>>],
  get_role |-> [http |-> "GET", path |-> "get_role", ids |-> 1, data |-> FALSE, files |-> FALSE,
      params |-> FALSE, filters |-> <<>>]]

(* The tools TestRailMCPServer._register_tools registers: the client method the
   wrapper calls, the name it gives _handle_error, and its parameters *)

Tools == [
  get_projects |-> [method |-> "get_projects", operation |-> "get_projects",
      params |-> {"is_completed", "limit", "offset"}],
  get_project |-> [method |-> "get_project", operation |-> "get_project",
      params |-> {"project_id"}],
  add_project |-> [method |-> "add_project", operation |-> "add_project",
      params |-> {"data"}],
  update_project |-> [method |-> "update_project", operation |-> "update_project",
      params |-> {"project_id", "data"}],
  delete_project |-> [method |-> "delete_project", operation |-> "delete_project",
      params |-> {"project_id"}],
  get_project_by_name |-> [method |-> "get_project_by_name", operation |-> "get_project_by_name",
      params |-> {"project_name"}],
  get_suites |-> [method |-> "get_suites", operation |-> "get_suites",
      params |-> {"project_id"}],
  get_suite |-> [method |-> "get_suite", operation |-> "get_suite",
      params |-> {"suite_id"}],
  add_suite |-> [method |-> "add_suite", operation |-> "add_suite",
      params |-> {"project_id", "data"}],
  update_suite |-> [method |-> "update_suite", operation |-> "update_suite",
      params |-> {"suite_id", "data"}],
  delete_suite |-> [method |-> "delete_suite", operation |-> "delete_suite",
      params |-> {"suite_id", "soft"}],
  get_suite_by_name |-> [method |-> "get_suite_by_name", operation |-> "get_suite_by_name",
      params |-> {"project_id", "suite_name"}],
  get_cases |-> [method |-> "get_cases", operation |-> "get_cases",
      params |-> {"project_id", "suite_id", "section_id", "created_after", "created_before", "created_by", "milestone_id", "priority_id", "type_id", "limit", "offset"}],
  get_case |-> [method |-> "get_case", operation |-> "get_case",
      params |-> {"case_id"}],
  add_case |-> [method |-> "add_case", operation |-> "add_case",
      params |-> {"section_id", "data"}],
  update_case |-> [method |-> "update_case", operation |-> "update_case",
      params |-> {"case_id", "data"}],
  update_cases |-> [method |-> "update_cases", operation |-> "update_cases",
      params |-> {"suite_id", "data"}],
  copy_cases_to_section |-> [method |-> "copy_cases_to_section", operation |-> "copy_cases_to_section",
      params |-> {"section_id", "data"}],
  move_cases_to_section |-> [method |-> "move_cases_to_section", operation |-> "move_cases_to_section",
      params |-> {"section_id", "data"}],
  delete_case |-> [method |-> "delete_case", operation |-> "delete_case",
      params |-> {"case_id", "soft"}],
  delete_cases |-> [method |-> "delete_cases", operation |-> "delete_cases",
      params |-> {"suite_id", "data", "soft"}],
  bulk_add_cases |-> [method |-> "bulk_add_cases", operation |-> "bulk_add_cases",
      params |-> {"section_id", "cases_data"}],
  get_milestones |-> [method |-> "get_milestones", operation |-> "get_milestones",
      params |-> {"project_id", "is_completed", "is_started", "limit", "offset"}],
  get_milestone |-> [method |-> "get_milestone", operation |-> "get_milestone",
      params |-> {"milestone_id"}],
  add_milestone |-> [method |-> "add_milestone", operation |-> "add_milestone",
      params |-> {"project_id", "data"}],
  update_milestone |-> [method |-> "update_milestone", operation |-> "update_milestone",
      params |-> {"milestone_id", "data"}],
  delete_milestone |-> [method |-> "delete_milestone", operation |-> "delete_milestone",
      params |-> {"milestone_id"}],
  get_milestone_by_name |-> [method |-> "get_milestone_by_name", operation |-> "get_milestone_by_name",
      params |-> {"project_id", "milestone_name"}],
  get_plans |-> [method |-> "get_plans", operation |-> "get_plans",
      params |-> {"project_id", "created_after", "created_before", "created_by", "is_completed", "limit", "milestone_id", "offset"}],
  get_plan |-> [method |-> "get_plan", operation |-> "get_plan",
      params |-> {"plan_id"}],
  add_plan |-> [method |-> "add_plan", operation |-> "add_plan",
      params |-> {"project_id", "data"}],
  add_plan_entry |-> [method |-> "add_plan_entry", operation |-> "add_plan_entry",
      params |-> {"plan_id", "data"}],
  update_plan |-> [method |-> "update_plan", operation |-> "update_plan",
      params |-> {"plan_id", "data"}],
  update_plan_entry |-> [method |-> "update_plan_entry", operation |-> "update_plan_entry",
      params |-> {"plan_id", "entry_id", "data"}],
  close_plan |-> [method |-> "close_plan", operation |-> "close_plan",
      params |-> {"plan_id"}],
  delete_plan |-> [method |-> "delete_plan", operation |-> "delete_plan",
      params |-> {"plan_id"}],
  delete_plan_entry |-> [method |-> "delete_plan_entry", operation |-> "delete_plan_entry",
      params |-> {"plan_id", "entry_id"}],
  get_runs |-> [method |-> "get_runs", operation |-> "get_runs",
      params |-> {"project_id", "created_after", "created_before", "created_by", "is_completed", "limit", "milestone_id", "offset", "suite_id"}],
  get_run |-> [method |-> "get_run", operation |-> "get_run",
      params |-> {"run_id"}],
  add_run |-> [method |-> "add_run", operation |-> "add_run",
      params |-> {"project_id", "data"}],
  update_run |-> [method |-> "update_run", operation |-> "update_run",
      params |-> {"run_id", "data"}],
  close_run |-> [method |-> "close_run", operation |-> "close_run",
      params |-> {"run_id"}],
  delete_run |-> [method |-> "delete_run", operation |-> "delete_run",
      params |-> {"run_id"}],
  get_run_by_name |-> [method |-> "get_run_by_name", operation |-> "get_run_by_name",
      params |-> {"project_id", "run_name"}],
  get_tests |-> [method |-> "get_tests", operation |-> "get_tests",
      params |-> {"run_id", "status_id", "limit", "offset"}],
  get_test |-> [method |-> "get_test", operation |-> "get_test",
      params |-> {"test_id"}],
  get_results |-> [method |-> "get_results", operation |-> "get_results",
      params |-> {"test_id", "limit", "offset", "status_id"}],
  get_results_for_case |-> [method |-> "get_results_for_case", operation |-> "get_results_for_case",
      params |-> {"run_id", "case_id", "limit", "offset", "status_id"}],
  get_results_for_run |-> [method |-> "get_results_for_run", operation |-> "get_results_for_run",
      params |-> {"run_id", "created_after", "created_before", "created_by", "limit", "offset", "status_id"}],
  add_result |-> [method |-> "add_result", operation |-> "add_result",
      params |-> {"test_id", "data"}],
  add_result_for_case |-> [method |-> "add_result_for_case", operation |-> "add_result_for_case",
      params |-> {"run_id", "case_id", "data"}],
  add_results |-> [method |-> "add_results", operation |-> "add_results",
      params |-> {"run_id", "data"}],
  add_results_for_cases |-> [method |-> "add_results_for_cases", operation |-> "add_results_for_cases",
      params |-> {"run_id", "data"}],
  get_users |-> [method |-> "get_users", operation |-> "get_users",
      params |-> {"limit", "offset"}],
  get_user |-> [method |-> "get_user", operation |-> "get_user",
      params |-> {"user_id"}],
  get_user_by_email |-> [method |-> "get_user_by_email", operation |-> "get_user_by_email",
      params |-> {"email"}],
  get_current_user |-> [method |-> "get_current_user", operation |-> "get_current_user",
      params |-> {}],
  get_user_by_name |-> [method |-> "get_user_by_name", operation |-> "get_user_by_name",
      params |-> {"username"}],
  get_case_fields |-> [method |-> "get_case_fields", operation |-> "get_case_fields",
      params |-> {}],
  get_case_types |-> [method |-> "get_case_types", operation |-> "get_case_types",
      params |-> {}],
  get_priorities |-> [method |-> "get_priorities", operation |-> "get_priorities",
      params |-> {}],
  get_statuses |-> [method |-> "get_statuses", operation |-> "get_statuses",
      params |-> {}],
  get_result_fields |-> [method |-> "get_result_fields", operation |-> "get_result_fields",
      params |-> {}],
  get_templates |-> [method |-> "get_templates", operation |-> "get_templates",
      params |-> {"project_id"}],
  get_section_by_name |-> [method |-> "get_section_by_name", operation |-> "get_section_by_name",
      params |-> {"project_id", "section_name"}],
  get_sections |-> [method |-> "get_sections", operation |-> "get_sections",
      params |-> {"project_id", "suite_id", "limit", "offset"}],
  get_section |-> [method |-> "get_section", operation |-> "get_section",
      params |-> {"section_id"}],
  add_section |-> [method |-> "add_section", operation |-> "add_section",
      params |-> {"project_id", "data"}],
  update_section |-> [method |-> "update_section", operation |-> "update_section",
      params |-> {"section_id", "data"}],
  move_section |-> [method |-> "move_section", operation |-> "move_section",
      params |-> {"section_id", "data"}],
  delete_section |-> [method |-> "delete_section", operation |-> "delete_section",
      params |-> {"section_id", "soft"}],
  add_attachment_to_case |-> [method |-> "add_attachment_to_case", operation |-> "add_attachment_to_case",
      params |-> {"case_id", "file_path"}],
  add_attachment_to_result |-> [method |-> "add_attachment_to_result", operation |-> "add_attachment_to_result",
      params |-> {"result_id", "file_path"}],
  add_attachment_to_run |-> [method |-> "add_attachment_to_run", operation |-> "add_attachment_to_run",
      params |-> {"run_id", "file_path"}],
  add_attachment_to_plan |-> [method |-> "add_attachment_to_plan", operation |-> "add_attachment_to_plan",
      params |-> {"plan_id", "file_path"}],
  delete_attachment |-> [method |-> "delete_attachment", operation |-> "delete_attachment",
      params |-> {"attachment_id"}]]

\* the public methods TestRailClient defines
ClientMethodNames == {
  "close", "get_case", "get_cases", "add_case", "copy_cases_to_section", "update_case",
  "update_cases", "move_cases_to_section", "delete_case", "delete_cases",
  "get_case_fields", "add_case_field", "get_case_types", "get_configs",
  "add_config_group", "add_config", "update_config_group", "update_config",
  "delete_config_group", "delete_config", "get_milestone", "get_milestones",
  "add_milestone", "update_milestone", "delete_milestone", "get_plan", "get_plans",
  "add_plan", "add_plan_entry", "update_plan", "update_plan_entry", "close_plan",
  "delete_plan", "delete_plan_entry", "get_priorities", "get_project", "get_projects",
  "add_project", "update_project", "delete_project", "get_reports", "run_report",
  "get_results", "get_results_for_case", "get_results_for_run", "add_result",
  "add_result_for_case", "add_results", "add_results_for_cases", "get_result_fields",
  "get_run", "get_runs", "add_run", "update_run", "close_run", "delete_run",
  "get_section", "get_sections", "add_section", "move_section", "update_section",
  "delete_section", "get_statuses", "get_suite", "get_suites", "add_suite",
  "update_suite", "delete_suite", "get_templates", "get_test", "get_tests", "get_user",
  "get_user_by_email", "get_users", "get_current_user", "add_attachment_to_case",
  "add_attachment_to_plan", "add_attachment_to_plan_entry", "add_attachment_to_result",
  "add_attachment_to_run", "get_attachment", "delete_attachment", "get_shared_step",
  "get_shared_steps", "add_shared_step", "update_shared_step", "delete_shared_step",
  "get_variables", "add_variable", "update_variable", "delete_variable",
  "get_bdd_steps", "get_datasets", "add_dataset", "update_dataset", "delete_dataset",
  "get_groups", "get_group", "get_roles", "get_role", "bulk_add_cases",
  "get_project_by_name", "get_suite_by_name", "get_run_by_name",
  "get_milestone_by_name", "get_user_by_name", "wait_for_report"}

-----------------------------------------------------------------------------
(* The client's single-request methods *)

ListingNames == {"get_cases", "get_milestones", "get_plans", "get_projects",
                 "get_results", "get_results_for_case", "get_results_for_run",
                 "get_runs", "get_sections", "get_tests", "get_users",
                 "get_shared_steps", "get_bdd_steps", "get_datasets"}
SoftDeleteNames == {"delete_case", "delete_cases", "delete_section", "delete_suite",
                    "delete_shared_step"}
AttachmentNames == {m \in DOMAIN Methods : Methods[m].files}
PlainNames == DOMAIN Methods \ (ListingNames \cup SoftDeleteNames \cup AttachmentNames)

FilterKeys(m) == {Methods[m].filters[i][1] : i \in DOMAIN Methods[m].filters}
FilterRow(m, key) ==
  Methods[m].filters[CHOOSE i \in DOMAIN Methods[m].filters : Methods[m].filters[i][1] = key]
RequiredKeys(m) == {k \in FilterKeys(m) : FilterRow(m, k)[2] = "always"}

\* every filter tested with "if x:"
FilterTestTruthy(test, v) == test = "always" \/ Truthy(v)

\* the condition under which a method puts a filter into params
FilterTest(test, v) ==
  CASE test = "truthy" -> Truthy(v)
    [] test = "not_none" -> ~IsNone(v)
    [] test = "always" -> TRUE

\* a method that reads an integer flag as a truth value before sending it
FilterValueActedOn(enc, v) ==
  IF enc = "join" THEN PyStr(JoinInts(v))
  ELSE IF IsInt(v) THEN PyInt(IF v.int = 0 THEN 0 ELSE 1)
  ELSE v

\* the value a method puts into params for a filter
FilterValue(enc, v) == IF enc = "join" THEN PyStr(JoinInts(v)) ELSE v

\* params = {}; if ...: params[key] = ...; one filter after the other
RECURSIVE BuildParams(_, _, _)
BuildParams(filters, a, params) ==
  IF Len(filters) = 0 THEN params
  ELSE LET key == filters[1][1]
           v == a[key]
           next == IF FilterTest(filters[1][2], v)
                   THEN [k \in DOMAIN params \cup {key} |->
                           IF k = key THEN FilterValue(filters[1][3], v) ELSE params[k]]
                   ELSE params
       IN  BuildParams(Tail(filters), a, next)

RECURSIVE IdSegments(_)
IdSegments(ids) ==
  IF Len(ids) = 0 THEN <<>> ELSE <<"/">> \o Str(ids[1]) \o IdSegments(Tail(ids))

\* f"<path>/{id}/{id}"
Endpoint(m, ids) == <<Methods[m].path>> \o IdSegments(ids)

\* files = {"attachment": (file_path.split("/")[-1], f.read())}
AttachmentFiles(file_path) ==
  PyDict("attachment" :> [filename |-> LastSegment(file_path), content |-> <<"bytes of ">> \o file_path])

\* an upload method that goes on without the file when it cannot be read
OpenFailsSkipped(file_path) == [kind |-> "return", value |-> PyNone]

\* with open(file_path, "rb") as f: the file cannot be read
OpenFails(file_path) ==
  [kind |-> "raise", exc |-> "FileNotFoundError",
   msg |-> <<"No such file or directory: ">> \o file_path]

\* the request of method m called with arguments a
MethodRequest(c, m, a, keycase) ==
  SendRequest(c, Methods[m].http, Endpoint(m, a.ids),
              IF Methods[m].data THEN a.data ELSE PyNone,
              IF Methods[m].files THEN AttachmentFiles(a.file_path) ELSE PyNone,
              IF Methods[m].params THEN PyDict(BuildParams(Methods[m].filters, a.filters, <<>>))
              ELSE PyNone,
              keycase)

(* Arguments a caller can pass *)

ValuesOf(type) ==
  CASE type = "int" -> {PyInt(v) : v \in ScalarValues}
    [] type = "list" -> {PyIntList(l) : l \in ListValues}
    [] type = "str" -> {PyStr(<<"qa@example.com">>)}

AllFilterValues == ValuesOf("int") \cup ValuesOf("list") \cup ValuesOf("str")

\* the filter arguments of a call of m that supplies at most MaxSupplied of the
\* optional filters in allowed and leaves the others at their default None
FilterArgs(m, allowed) ==
  LET keys == FilterKeys(m)
      chosen == {S \in SUBSET (allowed \cap keys) :
                   Cardinality(S \ RequiredKeys(m)) <= MaxSupplied /\ RequiredKeys(m) \subseteq S}
      given(S) == {g \in [S -> AllFilterValues] :
                     \A k \in S : g[k] \in ValuesOf(FilterRow(m, k)[4])}
  IN  UNION {{[k \in keys |-> IF k \in S THEN g[k] ELSE PyNone] : g \in given(S)} : S \in chosen}

NoArgs == [ids |-> <<>>, filters |-> <<>>, data |-> PyNone, file_path |-> <<>>]

CallArgs(m, allowed) ==
  {[ids |-> i, filters |-> f, data |-> d, file_path |-> p] :
     i \in [1..Methods[m].ids -> Ids],
     f \in FilterArgs(m, allowed),
     d \in IF Methods[m].data THEN DataValues ELSE {PyNone},
     p \in IF Methods[m].files THEN FilePaths ELSE {<<>>}}

-----------------------------------------------------------------------------
(* Responses of the remote, and what _send_request makes of them *)

NotJson == [notjson |-> TRUE]
IsNotJson(x) == "notjson" \in DOMAIN x

Entry(id, name) == PyDict(("id" :> PyInt(id)) @@ ("name" :> PyStr(<<name>>)))
EntryText(id, name) == <<"{\"id\": ">> \o Str(id) \o <<", \"name\": \"", name, "\"}">>

\* the i-th entry of a listing has id i
Listing(names) == [i \in 1..Len(names) |-> Entry(i, names[i])]
ListingText(names) ==
  <<"[">> \o Join(<<", ">>, [i \in 1..Len(names) |-> EntryText(i, names[i])]) \o <<"]">>

NameSeqs == UNION {[1..n -> EntryNames] : n \in 0..MaxEntries}

\* a listing as a bare JSON array
BareBody(names) == [text |-> ListingText(names), json |-> PyList(Listing(names))]

\* a listing inside the pagination object of the bulk endpoints
WrappedBody(coll, names) ==
  [text |-> <<"{\"offset\": 0, \"limit\": 250, \"size\": ">> \o Str(Len(names))
            \o <<", \"", coll, "\": ">> \o ListingText(names) \o <<"}">>,
   json |-> PyDict(("offset" :> PyInt(0)) @@ ("limit" :> PyInt(250))
                   @@ ("size" :> PyInt(Len(names))) @@ (coll :> PyList(Listing(names))))]

ErrorBody(e) ==
  [text |-> <<"{\"error\": \"">> \o e \o <<"\"}">>, json |-> PyDict("error" :> PyStr(e))]

GenericBodies ==
  {ErrorBody(e) : e \in ErrorTexts}
  \cup {[text |-> <<"{\"message\": \"Not allowed\"}">>,
         json |-> PyDict("message" :> PyStr(<<"Not allowed">>))],
        [text |-> <<"{}">>, json |-> PyDict(<<>>)],
        [text |-> EntryText(1, "Alpha"), json |-> Entry(1, "Alpha")],
        [text |-> <<"[\"error\"]">>, json |-> PyList(<<PyStr(<<"error">>)>>)],
        [text |-> <<"5">>, json |-> PyInt(5)],
        [text |-> <<"null">>, json |-> PyNone],
        [text |-> <<"<html>Bad Gateway</html>">>, json |-> NotJson],
        [text |-> <<>>, json |-> NotJson],
        BareBody(<<>>)}

\* the key of the entries in the pagination object of a listing endpoint
Collection ==
  [get_projects |-> "projects", get_suites |-> "suites", get_runs |-> "runs",
   get_milestones |-> "milestones", get_users |-> "users"]

\* the bodies the remote answers a request of method m with
BodiesFor(m) ==
  GenericBodies
  \cup (IF m \in DOMAIN Collection
        THEN {BareBody(n) : n \in NameSeqs} \cup {WrappedBody(Collection[m], n) : n \in NameSeqs}
        ELSE {})

\* the bodies the remote answers the add_case requests of a bulk call with
BulkBodies ==
  {ErrorBody(e) : e \in ErrorTexts}
  \cup {[text |-> EntryText(1, "Alpha"), json |-> Entry(1, "Alpha")],
        [text |-> <<"<html>Bad Gateway</html>">>, json |-> NotJson]}

NoOutcome == [kind |-> "none"]
Return(v) == [kind |-> "return", value |-> v]
Raise(exc, msg) == [kind |-> "raise", exc |-> exc, msg |-> msg]

\* the text after the status code in the failure message
ErrorDetail(body) ==
  LET j == body.json
      raw == <<": ">> \o body.text
  IN  CASE IsNotJson(j) -> raw
        [] IsDict(j) -> IF "error" \in DOMAIN j.dict
                        THEN <<": ">> \o PyToStr(j.dict["error"]) ELSE <<>>
        [] IsList(j) -> IF \E i \in DOMAIN j.list : PyEq(j.list[i], PyStr(<<"error">>))
                        THEN raw ELSE <<>>
        [] IsStr(j) -> IF Contains(j.str, <<"error">>) THEN raw ELSE <<>>
        [] OTHER -> raw

ErrorMessage(resp) ==
  <<"TestRail API returned HTTP ">> \o Str(resp.status) \o ErrorDetail(resp.body)

\* the decode failure of a success response not caught
ClassifyDecodeRaises(resp) ==
  IF resp.status >= 400 THEN Raise("Exception", ErrorMessage(resp))
  ELSE IF IsNotJson(resp.body.json)
  THEN Raise("JSONDecodeError", <<"Expecting value: line 1 column 1 (char 0)">>)
  ELSE Return(resp.body.json)

\* no status test at all
ClassifyAnyStatus(resp) ==
  IF IsNotJson(resp.body.json) THEN Return(PyDict("text" :> PyStr(resp.body.text)))
  ELSE Return(resp.body.json)

\* the status test off by one
ClassifyAbove(resp) ==
  IF resp.status > 400 THEN Raise("Exception", ErrorMessage(resp))
  ELSE IF IsNotJson(resp.body.json) THEN Return(PyDict("text" :> PyStr(resp.body.text)))
  ELSE Return(resp.body.json)

\* what _send_request returns or raises for a response
Classify(resp) ==
  IF resp.status >= 400 THEN Raise("Exception", ErrorMessage(resp))
  ELSE IF IsNotJson(resp.body.json) THEN Return(PyDict("text" :> PyStr(resp.body.text)))
  ELSE Return(resp.body.json)

-----------------------------------------------------------------------------
(* get_attachment: the one method that calls the session itself *)

\* self.session.get(f"{self.base_url}get_attachment/{attachment_id}")
GetAttachmentRequest(c, attachment_id) ==
  [method |-> "GET",
   url |-> c.base_url \o <<"get_attachment">> \o IdSegments(<<attachment_id>>),
   params |-> Absent, headers |-> Absent, files |-> Absent, data |-> Absent, json |-> Absent]

\* response.content: the bytes of the body
PyBytes(text) == [bytes |-> text]

\* what get_attachment returns or raises for a response
AttachmentOutcome(resp) ==
  IF resp.status >= 400
  THEN Raise("Exception", <<"Failed to get attachment: HTTP ">> \o Str(resp.status))
  ELSE Return(PyBytes(resp.body.text))

-----------------------------------------------------------------------------
(* The find-by-name helpers *)

Helpers ==
  [get_project_by_name |-> [listing |-> "get_projects", unwrap |-> "projects"],
   get_suite_by_name |-> [listing |-> "get_suites", unwrap |-> ""],
   get_run_by_name |-> [listing |-> "get_runs", unwrap |-> ""],
   get_milestone_by_name |-> [listing |-> "get_milestones", unwrap |-> ""],
   get_user_by_name |-> [listing |-> "get_users", unwrap |-> ""]]

NoHelper == [name |-> "none"]

\* r[key]
Subscript(r, key) ==
  CASE IsDict(r) -> IF key \in DOMAIN r.dict THEN Return(r.dict[key])
                    ELSE Raise("KeyError", <<"'", key, "'">>)
    [] IsList(r) -> Raise("TypeError", <<"list indices must be integers or slices, not str">>)
    [] IsStr(r) -> Raise("TypeError", <<"string indices must be integers">>)
    [] OTHER -> Raise("TypeError", <<"object is not subscriptable">>)

\* e.get("name") == target, for a mapping e
NameIs(e, target) == "name" \in DOMAIN e.dict /\ PyEq(e.dict["name"], target)

\* for e in coll: if e.get("name") == target: return e; then return None
FirstNamed(coll, target) ==
  CASE IsList(coll) ->
         LET stops == {i \in DOMAIN coll.list :
                         ~IsDict(coll.list[i]) \/ NameIs(coll.list[i], target)}
             first == CHOOSE i \in stops : \A j \in stops : i <= j
         IN  IF stops = {} THEN Return(PyNone)
             ELSE IF IsDict(coll.list[first]) THEN Return(coll.list[first])
             ELSE Raise("AttributeError", <<"object has no attribute 'get'">>)
    [] IsDict(coll) ->
         \* iterating a mapping yields its keys, which are strings
         IF DOMAIN coll.dict = {} THEN Return(PyNone)
         ELSE Raise("AttributeError", <<"'str' object has no attribute 'get'">>)
    [] IsStr(coll) ->
         IF Len(coll.str) = 0 THEN Return(PyNone)
         ELSE Raise("AttributeError", <<"'str' object has no attribute 'get'">>)
    [] OTHER -> Raise("TypeError", <<"object is not iterable">>)

\* the helper's outcome, given the outcome of its listing call
FindByName(h, listed, target) ==
  IF listed.kind = "raise" THEN listed
  ELSE LET coll == IF Helpers[h].unwrap # "" THEN Subscript(listed.value, Helpers[h].unwrap)
                   ELSE listed
       IN  IF coll.kind = "raise" THEN coll ELSE FirstNamed(coll.value, target)

-----------------------------------------------------------------------------
(* bulk_add_cases *)

\* the payload lists a caller gives bulk_add_cases: the i-th payload of a list
\* is titled by i, and one list has its payloads in the other order
CasePayload(i) == PyDict("title" :> PyStr(<<"Case ">> \o Str(i)))
CaseLists ==
  {[i \in 1..n |-> CasePayload(i)] : n \in 0..MaxCases}
  \cup {<<CasePayload(2), CasePayload(1)>>}

\* every case added to the first section
AddCaseArgsOneSection(section_id, case_data) ==
  [ids |-> <<1>>, filters |-> <<>>, data |-> case_data, file_path |-> <<>>]

\* the arguments of self.add_case(section_id, case_data)
AddCaseArgs(section_id, case_data) ==
  [ids |-> <<section_id>>, filters |-> <<>>, data |-> case_data, file_path |-> <<>>]

\* the loop of bulk_add_cases before the call for the first payload in todo:
\* the arguments, the payloads still to come and the results so far
BulkFrame(section_id, cases_data, todo, results) ==
  [name |-> "bulk_add_cases", section_id |-> section_id, cases_data |-> cases_data,
   todo |-> todo, results |-> results]

-----------------------------------------------------------------------------
(* wait_for_report *)

\* the bodies the remote answers a run_report request with
ReportBody(status) ==
  [text |-> <<"{\"status\": \"", status, "\"}">>,
   json |-> PyDict("status" :> PyStr(<<status>>))]
ReportErrorBody(e) ==
  [text |-> <<"{\"status\": \"error\", \"error\": \"">> \o e \o <<"\"}">>,
   json |-> PyDict(("status" :> PyStr(<<"error">>)) @@ ("error" :> PyStr(e)))]
ReportBodies ==
  {ReportBody("completed"), ReportBody("processing"), ReportBody("error"),
   ReportErrorBody(<<"Template not found">>),
   ReportErrorBody(<<"Report is ", "still being generated">>),
   ErrorBody(<<"Template not found">>),
   ErrorBody(<<"Report is ", "Still Being Generated">>),
   [text |-> <<"{}">>, json |-> PyDict(<<>>)],
   [text |-> <<"<html>Bad Gateway</html>">>, json |-> NotJson],
   BareBody(<<>>)}

\* the loop of wait_for_report: the arguments, time.time() - start_time, and
\* the seconds spent in time.sleep
WaitFrame(report_template_id, max_wait_seconds, poll_interval, elapsed, slept) ==
  [name |-> "wait_for_report", report_template_id |-> report_template_id,
   max_wait_seconds |-> max_wait_seconds, poll_interval |-> poll_interval,
   elapsed |-> elapsed, slept |-> slept]

\* the arguments of self.run_report(report_template_id)
RunReportArgs(report_template_id) == [NoArgs EXCEPT !.ids = <<report_template_id>>]

\* the test of the loop passing once more when the time is just up
WaitGoesOnInclusive(frame) == frame.elapsed <= frame.max_wait_seconds

\* while time.time() - start_time < max_wait_seconds
WaitGoesOn(frame) == frame.elapsed < frame.max_wait_seconds

\* raise Exception(f"Report did not complete within {max_wait_seconds} seconds")
WaitTimeout(frame) ==
  Raise("Exception", <<"Report did not complete within ">> \o Str(frame.max_wait_seconds)
                     \o <<" seconds">>)

\* d.get(key, default)
DictGet(d, key, default) == IF key \in DOMAIN d.dict THEN d.dict[key] ELSE default

Sleep == [kind |-> "sleep"]

\* a handler that retries after every failure
CaughtRetriesAll(e) == Sleep

\* except Exception as e: a failure whose message holds "still being
\* generated" in any case is followed by a sleep, any other is raised again
Caught(e) ==
  IF Contains(Lower(e.msg), <<"still being generated">>) THEN Sleep ELSE e

\* the loop going round again after a completed report
PollOutcomeIgnoresCompleted(sent) ==
  IF sent.kind = "raise" THEN Caught(sent)
  ELSE IF ~IsDict(sent.value)
  THEN Caught(Raise("AttributeError", <<"object has no attribute 'get'">>))
  ELSE IF PyEq(DictGet(sent.value, "status", PyNone), PyStr(<<"error">>))
  THEN Caught(Raise("Exception",
                    <<"Report failed: ">>
                    \o PyToStr(DictGet(sent.value, "error", PyStr(<<"Unknown error">>)))))
  ELSE Sleep

\* the body of the loop, given the outcome of run_report: what it returns or
\* raises, or that it sleeps and goes round again
PollOutcome(sent) ==
  IF sent.kind = "raise" THEN Caught(sent)
  ELSE IF ~IsDict(sent.value)
  THEN Caught(Raise("AttributeError", <<"object has no attribute 'get'">>))
  ELSE LET status == DictGet(sent.value, "status", PyNone)
       IN  IF PyEq(status, PyStr(<<"completed">>)) THEN sent
           ELSE IF PyEq(status, PyStr(<<"error">>))
           THEN Caught(Raise("Exception",
                             <<"Report failed: ">>
                             \o PyToStr(DictGet(sent.value, "error", PyStr(<<"Unknown error">>)))))
           ELSE Sleep

-----------------------------------------------------------------------------
(* The tool wrappers of TestRailMCPServer *)

\* the message without the operation
HandleErrorBare(operation, error) == PyDict("error" :> PyStr(error.msg))

\* _handle_error(operation, error)
HandleError(operation, error) ==
  PyDict("error" :> PyStr(<<"Error in ", operation, ": ">> \o error.msg))

\* a wrapper that reshapes the result
ToolResultWrapped(t, out) ==
  IF out.kind = "raise" THEN Return(HandleError(Tools[t].operation, out))
  ELSE Return(PyDict("result" :> out.value))

\* try: return self.client.<method>(...) except Exception as e: return
\* self._handle_error("<operation>", e)
ToolResult(t, out) ==
  IF out.kind = "raise" THEN Return(HandleError(Tools[t].operation, out)) ELSE out

\* who can call client method m: a caller that holds the client, or a tool
Callers(m) == {"direct"} \cup {t \in DOMAIN Tools : Tools[t].method = m}

Delivered(t, out) == IF t = "direct" THEN out ELSE ToolResult(t, out)

-----------------------------------------------------------------------------
(* The state machine *)

NoRequest == Absent
NoResponse == Absent

\* os.environ after load_dotenv: each of the three variables unset, empty or
\* set
Environments ==
  {[TESTRAIL_URL |-> u, TESTRAIL_USERNAME |-> n, TESTRAIL_API_KEY |-> k] :
     u \in {Absent, PyStr(<<>>)} \cup {PyStr(b) : b \in BaseUrls},
     n \in {Absent, PyStr(<<>>), PyStr(<<"qa@example.com">>)},
     k \in {Absent, PyStr(<<>>), PyStr(<<"k3y">>)}}

NoSettings == Absent
NoClient == Absent

\* get_env_var(name)
GetEnvVar(e, name) ==
  IF IsAbsent(e[name])
  THEN Raise("EnvironmentError", <<"Missing required environment variable: ", name>>)
  ELSE Return(e[name])

\* main without the test of the three values
MainSettingsUnchecked(e) ==
  LET url == GetEnvVar(e, "TESTRAIL_URL")
      username == GetEnvVar(e, "TESTRAIL_USERNAME")
      apikey == GetEnvVar(e, "TESTRAIL_API_KEY")
  IN  IF url.kind = "raise" THEN url
      ELSE IF username.kind = "raise" THEN username
      ELSE IF apikey.kind = "raise" THEN apikey
      ELSE Return([base_url |-> url.value.str, username |-> username.value.str,
                   api_key |-> apikey.value.str])

\* main up to the call of create_server: the failure it raises, or the three
\* settings it passes on
MainSettings(e) ==
  LET url == GetEnvVar(e, "TESTRAIL_URL")
      username == GetEnvVar(e, "TESTRAIL_USERNAME")
      apikey == GetEnvVar(e, "TESTRAIL_API_KEY")
  IN  IF url.kind = "raise" THEN url
      ELSE IF username.kind = "raise" THEN username
      ELSE IF apikey.kind = "raise" THEN apikey
      ELSE IF ~(Truthy(url.value) /\ Truthy(username.value) /\ Truthy(apikey.value))
      THEN Raise("ValueError", <<"Missing required environment variables: ",
                                 "TESTRAIL_URL, TESTRAIL_USERNAME, TESTRAIL_API_KEY">>)
      ELSE Return([base_url |-> url.value.str, username |-> username.value.str,
                   api_key |-> apikey.value.str])

\* a tool wrapper that constructs a client of its own for the call
ClientsAfterCallFresh(n) == n + 1

\* the clients constructed so far, after a call: a tool wrapper calls
\* self.client and constructs none
ClientsAfterCall(n) == n

\* closing a session that refuses to be closed twice
SessionCloseOnce(s) ==
  IF s = "closed"
  THEN [session |-> "closed", out |-> Raise("RuntimeError", <<"client is already closed">>)]
  ELSE [session |-> "closed", out |-> Return(PyNone)]

\* self.session.close(): httpx is not part of the repository; closing its
\* client marks it closed, and closing a closed client does nothing
SessionClose(s) == [session |-> "closed", out |-> Return(PyNone)]

\* the tool invocations that run at the same time
Invocations == {1, 2}

\* the locals of an invocation: where it is, the tool and its arguments, the
\* kwargs of _send_request, the request the session has put on the wire for
\* it, and the response, the outcome of the client method and the result of
\* the tool
IdleThread ==
  [pc |-> "idle", tool |-> "none", method |-> "none", args |-> NoArgs, kwargs |-> NoRequest,
   wire |-> NoRequest, response |-> NoResponse, outcome |-> NoOutcome, result |-> NoOutcome]

\* a _send_request that keeps kwargs on the client, one for all invocations
KwargsOwnerShared(i) == 1

\* whose kwargs invocation i writes and hands to the session: kwargs is a
\* local of the call of _send_request, so its own
KwargsOwner(i) == i

Init ==
  /\ env \in Environments
  /\ phase = "start"
  /\ ended = NoOutcome
  /\ registered = {}
  /\ session = "none"
  /\ closes = 0
  /\ released = NoOutcome
  /\ instances = 0
  /\ settings = NoSettings
  /\ client = NoClient
  /\ pc = "idle"
  /\ tool = "none"
  /\ method = "none"
  /\ args = NoArgs
  /\ helper = NoHelper
  /\ kwargs = NoRequest
  /\ response = NoResponse
  /\ outcome = NoOutcome
  /\ result = NoOutcome
  /\ nreq = 0
  /\ uploaded = FALSE
  /\ threads = [i \in Invocations |-> IdleThread]

call == <<pc, tool, method, args, helper, kwargs, response, outcome, result, nreq>>

\* main(): a missing or empty setting ends it with a failure; otherwise
\* create_server constructs the registry, which constructs its client and
\* registers the tools, and run() starts serving
Main ==
  /\ phase = "start"
  /\ LET s == MainSettings(env)
     IN  IF s.kind = "raise"
         THEN /\ phase' = "failed"
              /\ ended' = s
              /\ UNCHANGED <<registered, session, instances, settings, client>>
         ELSE /\ phase' = "serving"
              /\ settings' = s.value
              /\ client' = ClientInit(s.value.base_url, s.value.username, s.value.api_key)
              /\ instances' = instances + 1
              /\ session' = "open"
              /\ registered' = DOMAIN Tools
              /\ UNCHANGED ended
  /\ UNCHANGED <<uploaded, threads, env, closes, released, call>>

\* the server serves and no call is in progress
Serving == phase = "serving" /\ pc = "idle"

\* run() returns, or raises: the server stops serving and main ends
Stop ==
  /\ Serving
  /\ phase' = "stopped"
  /\ ended' \in {Return(PyNone), Raise("KeyboardInterrupt", <<>>)}
  /\ UNCHANGED <<uploaded, threads, env, registered, session, closes, released, instances, settings, client, call>>

\* the client is released once more
Release ==
  /\ closes < MaxReleases
  /\ closes' = closes + 1
  /\ session' = SessionClose(session).session
  /\ released' = SessionClose(session).out

\* close() by whoever holds the client, after the server has stopped
Close ==
  /\ phase \in {"stopped", "finalized"}
  /\ Release
  /\ UNCHANGED <<uploaded, threads, env, phase, ended, registered, instances, settings, client, call>>

\* __exit__ at the end of a with-block over the client: self.close()
ExitWith ==
  /\ phase \in {"stopped", "finalized"}
  /\ Release
  /\ UNCHANGED <<uploaded, threads, env, phase, ended, registered, instances, settings, client, call>>

\* the registry is finalized: __del__ closes the client it has
Finalize ==
  /\ phase = "stopped"
  /\ phase' = "finalized"
  /\ Release
  /\ UNCHANGED <<uploaded, threads, env, ended, registered, instances, settings, client, call>>

\* the process ends; Python does not promise that the finalizer of an object
\* that still exists is run before it does
ProcessExit ==
  /\ phase \in {"stopped", "finalized"}
  /\ phase' = "exited"
  /\ UNCHANGED <<uploaded, threads, env, ended, registered, session, closes, released, instances, settings,
                 client, call>>

\* the call has built its request and handed it to the session
Sent(via, m, a, h, req) ==
  /\ pc' = "sent"
  /\ tool' = via
  /\ method' = m
  /\ args' = a
  /\ helper' = h
  /\ kwargs' = req
  /\ nreq' = nreq + 1
  /\ instances' = ClientsAfterCall(instances)
  /\ client' = [client EXCEPT !.headers = SessionHeadersAfter(client.headers, req)]
  /\ uploaded' = (uploaded \/ ~IsAbsent(req.files))
  /\ UNCHANGED <<threads, server, settings, response, outcome, result>>

\* the call has ended without handing a request to the session
Unsent(via, m, a, out) ==
  /\ pc' = "done"
  /\ tool' = via
  /\ method' = m
  /\ args' = a
  /\ outcome' = out
  /\ result' = Delivered(via, out)
  /\ instances' = ClientsAfterCall(instances)
  /\ UNCHANGED <<uploaded, threads, server, settings, client, helper, kwargs, response, nreq>>

\* the filters a caller can supply to method m: all of them when it calls the
\* client, those the tool declares when it calls the tool
Allowed(via, m) == IF via = "direct" THEN FilterKeys(m) ELSE Tools[via].params

\* a listing operation: get_cases, get_runs, ...
CallListing ==
  /\ Serving
  /\ \E m \in ListingNames : \E via \in Callers(m) : \E a \in CallArgs(m, Allowed(via, m)) :
       Sent(via, m, a, NoHelper, MethodRequest(client, m, a, "as_set"))

\* a delete operation with a soft flag
CallSoftDelete ==
  /\ Serving
  /\ \E m \in SoftDeleteNames : \E via \in Callers(m) : \E a \in CallArgs(m, Allowed(via, m)) :
       Sent(via, m, a, NoHelper, MethodRequest(client, m, a, "as_set"))

\* every other method that is one call of _send_request
CallPlain ==
  /\ Serving
  /\ \E m \in PlainNames : \E via \in Callers(m) : \E a \in CallArgs(m, Allowed(via, m)) :
       Sent(via, m, a, NoHelper, MethodRequest(client, m, a, "as_set"))

\* add_attachment_to_case, _plan, _plan_entry, _result, _run
CallAttachment ==
  /\ Serving
  /\ \E m \in AttachmentNames : \E via \in Callers(m) : \E a \in CallArgs(m, Allowed(via, m)) :
       \/ \E keycase \in HeaderKeyCases :
            Sent(via, m, a, NoHelper, MethodRequest(client, m, a, keycase))
       \/ \* open(file_path, "rb") fails
          Unsent(via, m, a, OpenFails(a.file_path))

\* get_project_by_name, get_suite_by_name, ...: the listing is requested with
\* every filter at its default
CallFindByName ==
  /\ Serving
  /\ \E h \in DOMAIN Helpers : \E via \in Callers(h) : \E target \in SearchNames :
       LET m == Helpers[h].listing
       IN  \E a \in CallArgs(m, {}) :
             Sent(via, h, a, [name |-> h, target |-> PyStr(<<target>>)],
                  MethodRequest(client, m, a, "as_set"))

\* bulk_add_cases(section_id, cases_data): the call of add_case for the first
\* payload, or the return of the empty list when there is no payload
CallBulkAddCases ==
  /\ Serving
  /\ \E via \in Callers("bulk_add_cases") : \E section_id \in Ids : \E cases \in CaseLists :
       IF Len(cases) = 0
       THEN Unsent(via, "bulk_add_cases", NoArgs, Return(PyList(<<>>)))
       ELSE LET a == AddCaseArgs(section_id, Head(cases))
            IN  Sent(via, "bulk_add_cases", a, BulkFrame(section_id, cases, Tail(cases), <<>>),
                     MethodRequest(client, "add_case", a, "as_set"))

\* wait_for_report(report_template_id, max_wait_seconds, poll_interval): the
\* first test of the loop, and the call of run_report or the timeout failure
CallWaitForReport ==
  /\ Serving
  /\ \E via \in Callers("wait_for_report") : \E id \in Ids :
     \E max_wait_seconds \in WaitLimits : \E poll_interval \in PollIntervals :
       LET frame == WaitFrame(id, max_wait_seconds, poll_interval, 0, 0)
       IN  IF WaitGoesOn(frame)
           THEN Sent(via, "wait_for_report", RunReportArgs(id), frame,
                     MethodRequest(client, "run_report", RunReportArgs(id), "as_set"))
           ELSE /\ pc' = "done"
                /\ tool' = via
                /\ method' = "wait_for_report"
                /\ helper' = frame
                /\ outcome' = WaitTimeout(frame)
                /\ result' = Delivered(via, WaitTimeout(frame))
                /\ instances' = ClientsAfterCall(instances)
                /\ UNCHANGED <<uploaded, threads, server, settings, client, args, kwargs, response, nreq>>

\* get_attachment(attachment_id)
CallGetAttachment ==
  /\ Serving
  /\ \E attachment_id \in Ids :
       Sent("direct", "get_attachment", [NoArgs EXCEPT !.ids = <<attachment_id>>], NoHelper,
            GetAttachmentRequest(client, attachment_id))

\* a tool whose wrapper names a method the client does not define
CallMissingMethod ==
  /\ Serving
  /\ \E t \in DOMAIN Tools :
       /\ Tools[t].method \notin ClientMethodNames
       /\ Unsent(t, Tools[t].method, NoArgs,
                 Raise("AttributeError", <<"'TestRailClient' object has no attribute '",
                                           Tools[t].method, "'">>))

\* the method whose request is in flight
RequestMethod ==
  IF helper = NoHelper THEN method
  ELSE IF helper.name = "bulk_add_cases" THEN "add_case"
  ELSE IF helper.name = "wait_for_report" THEN "run_report"
  ELSE Helpers[helper.name].listing

\* self.session.request(**kwargs) puts the request on the wire; the keyword
\* arguments and the arguments of the call are not read again
Transmit ==
  /\ pc = "sent"
  /\ pc' = "waiting"
  /\ kwargs' = NoRequest
  /\ args' = NoArgs
  /\ UNCHANGED <<uploaded, threads, server, instances, settings, client, tool, method, helper, response, outcome, result, nreq>>

\* the remote answers; _send_request classifies the answer, the helper and the
\* tool wrapper finish
Respond ==
  /\ pc = "waiting"
  /\ helper.name \notin {"bulk_add_cases", "wait_for_report"}
  /\ method # "get_attachment"
  /\ \E status \in Statuses : \E body \in BodiesFor(RequestMethod) :
       LET resp == [status |-> status, body |-> body]
           sent == Classify(resp)
           out == IF helper = NoHelper THEN sent
                  ELSE FindByName(helper.name, sent, helper.target)
       IN  /\ response' = resp
           /\ outcome' = out
           /\ result' = Delivered(tool, out)
  /\ pc' = "done"
  /\ UNCHANGED <<uploaded, threads, server, instances, settings, client, tool, method, args, helper, kwargs, nreq>>

\* the remote answers a run_report request of wait_for_report after latency
\* seconds: the loop returns, raises, or sleeps poll_interval seconds and then
\* calls run_report again or, the time being up, raises the timeout failure
ReportRespond ==
  /\ pc = "waiting"
  /\ helper.name = "wait_for_report"
  /\ \E status \in Statuses : \E body \in ReportBodies : \E latency \in Latencies :
       LET resp == [status |-> status, body |-> body]
           step == PollOutcome(Classify(resp))
           nap == IF step.kind = "sleep" THEN helper.poll_interval ELSE 0
           frame == WaitFrame(helper.report_template_id, helper.max_wait_seconds,
                              helper.poll_interval, helper.elapsed + latency + nap,
                              helper.slept + nap)
           out == IF step.kind = "sleep" THEN WaitTimeout(frame) ELSE step
       IN  /\ response' = resp
           /\ helper' = frame
           /\ IF step.kind = "sleep" /\ WaitGoesOn(frame)
              THEN /\ pc' = "sent"
                   /\ args' = RunReportArgs(frame.report_template_id)
                   /\ kwargs' = MethodRequest(client, "run_report",
                                              RunReportArgs(frame.report_template_id), "as_set")
                   /\ nreq' = nreq + 1
                   /\ UNCHANGED <<outcome, result>>
              ELSE /\ pc' = "done"
                   /\ outcome' = out
                   /\ result' = Delivered(tool, out)
                   /\ UNCHANGED <<args, kwargs, nreq>>
  /\ UNCHANGED <<uploaded, threads, server, instances, settings, client, tool, method>>

\* the remote answers the request of get_attachment
AttachmentRespond ==
  /\ pc = "waiting"
  /\ method = "get_attachment"
  /\ \E status \in Statuses : \E body \in GenericBodies :
       LET resp == [status |-> status, body |-> body]
           out == AttachmentOutcome(resp)
       IN  /\ response' = resp
           /\ outcome' = out
           /\ result' = Delivered(tool, out)
  /\ pc' = "done"
  /\ UNCHANGED <<uploaded, threads, server, instances, settings, client, tool, method, args, helper, kwargs, nreq>>

\* the session raises instead of returning a response: the failure leaves
\* _send_request, the method and the helper; only wait_for_report catches it,
\* and raises it again
TransportFails ==
  /\ pc = "waiting"
  /\ LET e == Raise("ConnectError", <<"All connection attempts failed">>)
         out == IF helper.name = "wait_for_report" THEN Caught(e) ELSE e
     IN  /\ out.kind = "raise"
         /\ outcome' = out
         /\ result' = Delivered(tool, out)
  /\ pc' = "done"
  /\ response' = NoResponse
  /\ UNCHANGED <<uploaded, threads, server, instances, settings, client, tool, method, args, helper, kwargs, nreq>>

\* the remote answers an add_case request of bulk_add_cases: a failure leaves
\* the loop and the method; a result is appended, and the loop calls add_case
\* for the next payload or, after the last, the method returns the results
BulkRespond ==
  /\ pc = "waiting"
  /\ helper.name = "bulk_add_cases"
  /\ \E status \in Statuses : \E body \in BulkBodies :
       LET resp == [status |-> status, body |-> body]
           sent == Classify(resp)
           results == IF sent.kind = "return" THEN Append(helper.results, sent.value)
                      ELSE helper.results
           out == IF sent.kind = "raise" THEN sent ELSE Return(PyList(results))
       IN  /\ response' = resp
           /\ IF sent.kind = "return" /\ Len(helper.todo) > 0
              THEN LET a == AddCaseArgs(helper.section_id, Head(helper.todo))
                   IN  /\ pc' = "sent"
                       /\ args' = a
                       /\ kwargs' = MethodRequest(client, "add_case", a, "as_set")
                       /\ helper' = BulkFrame(helper.section_id, helper.cases_data, Tail(helper.todo), results)
                       /\ nreq' = nreq + 1
                       /\ UNCHANGED <<outcome, result>>
              ELSE /\ pc' = "done"
                   /\ outcome' = out
                   /\ result' = Delivered(tool, out)
                   /\ UNCHANGED <<args, kwargs, helper, nreq>>
  /\ UNCHANGED <<uploaded, threads, server, instances, settings, client, tool, method>>

\* the caller takes the result
Take ==
  /\ pc = "done"
  /\ pc' = "idle"
  /\ tool' = "none"
  /\ method' = "none"
  /\ args' = NoArgs
  /\ helper' = NoHelper
  /\ kwargs' = NoRequest
  /\ response' = NoResponse
  /\ outcome' = NoOutcome
  /\ result' = NoOutcome
  /\ nreq' = 0
  /\ UNCHANGED <<uploaded, threads, server, instances, settings, client>>

Next ==
  \/ Main
  \/ Stop
  \/ Close
  \/ ExitWith
  \/ Finalize
  \/ ProcessExit
  \/ CallListing
  \/ CallSoftDelete
  \/ CallPlain
  \/ CallAttachment
  \/ CallFindByName
  \/ CallBulkAddCases
  \/ CallWaitForReport
  \/ CallGetAttachment
  \/ CallMissingMethod
  \/ Transmit
  \/ Respond
  \/ BulkRespond
  \/ ReportRespond
  \/ AttachmentRespond
  \/ TransportFails
  \/ Take

Spec == Init /\ [][Next]_vars

\* the session sends the request it is handed, and a run_report request that
\* has been sent is answered unless it fails; time.sleep returns; the process
\* ends once the server has stopped
LiveSpec == Spec /\ WF_vars(Transmit) /\ WF_vars(ReportRespond) /\ WF_vars(ProcessExit)

-----------------------------------------------------------------------------
(* Two tool invocations at the same time on the client of a serving registry *)

\* the tools invoked: a read, a delete with a flag, a write with a body and a
\* file upload
ConcTools == {"get_case", "delete_case", "add_case", "add_attachment_to_case"}

\* the bodies the remote answers with
ConcBodies ==
  {ErrorBody(e) : e \in ErrorTexts} \cup {[text |-> EntryText(1, "Alpha"), json |-> Entry(1, "Alpha")]}

\* main has run with the three settings set: the registry is constructed and
\* serves, and no invocation is in progress
ConcInit ==
  /\ env \in {e \in Environments : MainSettings(e).kind = "return"}
  /\ phase = "serving"
  /\ ended = NoOutcome
  /\ registered = DOMAIN Tools
  /\ session = "open"
  /\ closes = 0
  /\ released = NoOutcome
  /\ instances = 1
  /\ settings = MainSettings(env).value
  /\ client = ClientInit(settings.base_url, settings.username, settings.api_key)
  /\ pc = "idle"
  /\ tool = "none"
  /\ method = "none"
  /\ args = NoArgs
  /\ helper = NoHelper
  /\ kwargs = NoRequest
  /\ response = NoResponse
  /\ outcome = NoOutcome
  /\ result = NoOutcome
  /\ nreq = 0
  /\ uploaded = FALSE
  /\ threads = [i \in Invocations |-> IdleThread]

\* invocation i is started: the wrapper calls the client method, which calls
\* _send_request, which builds kwargs
ConcCall(i) ==
  /\ threads[i].pc = "idle"
  /\ \E t \in ConcTools \cap registered : \E a \in CallArgs(Tools[t].method, Tools[t].params) :
     \E keycase \in (IF Methods[Tools[t].method].files THEN HeaderKeyCases ELSE {"as_set"}) :
       LET m == Tools[t].method
           req == MethodRequest(client, m, a, keycase)
           started == [threads EXCEPT ![i] = [IdleThread EXCEPT !.pc = "built", !.tool = t,
                                                               !.method = m, !.args = a]]
       IN  /\ threads' = [started EXCEPT ![KwargsOwner(i)].kwargs = req]
           /\ client' = [client EXCEPT !.headers = SessionHeadersAfter(client.headers, req)]
           /\ uploaded' = (uploaded \/ ~IsAbsent(req.files))
  /\ UNCHANGED <<server, instances, settings, call>>

\* self.session.request(**kwargs) of invocation i puts the request on the wire
ConcTransmit(i) ==
  /\ threads[i].pc = "built"
  /\ threads' = [threads EXCEPT ![i] = [@ EXCEPT !.pc = "waiting",
                                                 !.wire = threads[KwargsOwner(i)].kwargs]]
  /\ UNCHANGED <<server, instances, settings, client, call, uploaded>>

\* the remote answers the request of invocation i: the response names the
\* request it answers (response.request); _send_request classifies it and the
\* wrapper finishes
ConcRespond(i) ==
  /\ threads[i].pc = "waiting"
  /\ \E status \in {200, 400} : \E body \in ConcBodies :
       LET resp == [status |-> status, body |-> body, request |-> threads[i].wire]
           out == Classify(resp)
       IN  threads' = [threads EXCEPT ![i] = [@ EXCEPT !.pc = "done", !.response = resp,
                                                      !.outcome = out,
                                                      !.result = Delivered(threads[i].tool, out)]]
  /\ UNCHANGED <<server, instances, settings, client, call, uploaded>>

\* the session raises for the request of invocation i
ConcFails(i) ==
  /\ threads[i].pc = "waiting"
  /\ LET out == Raise("ConnectError", <<"All connection attempts failed">>)
     IN  threads' = [threads EXCEPT ![i] = [@ EXCEPT !.pc = "done", !.outcome = out,
                                                    !.result = Delivered(threads[i].tool, out)]]
  /\ UNCHANGED <<server, instances, settings, client, call, uploaded>>

\* the caller of invocation i takes the result
ConcTake(i) ==
  /\ threads[i].pc = "done"
  /\ threads' = [threads EXCEPT ![i] = IdleThread]
  /\ UNCHANGED <<server, instances, settings, client, call, uploaded>>

ConcNext ==
  \E i \in Invocations :
    \/ ConcCall(i)
    \/ ConcTransmit(i)
    \/ ConcRespond(i)
    \/ ConcFails(i)
    \/ ConcTake(i)

ConcSpec == ConcInit /\ [][ConcNext]_vars

-----------------------------------------------------------------------------
(* Vocabulary of the properties *)

\* the query parameters handed to the session: none when the keyword is absent
SentParams == IF IsAbsent(kwargs.params) THEN <<>> ELSE kwargs.params.dict

\* a listing operation has handed its request to the session
ListingSent == pc = "sent" /\ helper = NoHelper /\ method \in ListingNames

OptionalKeys(m) == FilterKeys(m) \ RequiredKeys(m)
ListKeys(m) == {k \in FilterKeys(m) : FilterRow(m, k)[4] = "list"}

\* the decimal numeral of n, 0 <= n < 1000, digit by digit
DecimalText(n) ==
  IF n < 10 THEN <<Digits[n + 1]>>
  ELSE IF n < 100 THEN <<Digits[(n \div 10) + 1], Digits[(n % 10) + 1]>>
  ELSE <<Digits[(n \div 100) + 1], Digits[((n \div 10) % 10) + 1], Digits[(n % 10) + 1]>>

\* the numerals of a list of ints in the list's order, a comma between neighbours
RECURSIVE CommaDecimal(_)
CommaDecimal(xs) ==
  IF Len(xs) = 0 THEN <<>>
  ELSE IF Len(xs) = 1 THEN DecimalText(xs[1].int)
  ELSE CommaDecimal(SubSeq(xs, 1, Len(xs) - 1)) \o <<",">> \o DecimalText(xs[Len(xs)].int)

\* msg holds the numeral of status and, somewhere after it, text
StatusThenText(msg, status, text) ==
  LET d == DecimalText(status)
  IN  \E i \in 1..(Len(msg) - Len(d) + 1) :
        /\ SubSeq(msg, i, i + Len(d) - 1) = d
        /\ Contains(SubSeq(msg, i + Len(d), Len(msg)), text)

\* _send_request has classified a response and the call has ended with what
\* the method made of it (get_attachment does not call _send_request, and
\* wait_for_report goes on polling after some failures)
Answered ==
  pc = "done" /\ ~IsAbsent(response) /\ method \notin {"get_attachment", "wait_for_report"}

\* the body is a JSON object with an "error" field
HasErrorField(body) == IsDict(body.json) /\ "error" \in DOMAIN body.json.dict

\* the entries of a listing payload, bare or inside the pagination object
IsEntryList(v) == IsList(v) /\ \A i \in DOMAIN v.list : IsDict(v.list[i])
HasEntries(j, coll) ==
  \/ IsEntryList(j)
  \/ IsDict(j) /\ coll \in DOMAIN j.dict /\ IsEntryList(j.dict[coll])
EntriesOf(j, coll) == IF IsList(j) THEN j.list ELSE j.dict[coll].list

\* the first entry named target, or None
FirstMatch(entries, target) ==
  LET hits == {i \in DOMAIN entries : NameIs(entries[i], target)}
  IN  IF hits = {} THEN PyNone ELSE entries[CHOOSE i \in hits : \A j \in hits : i <= j]

-----------------------------------------------------------------------------
(* Properties *)

\* C1: in the request of a listing operation the key of an optional filter is
\* among the query parameters if and only if the caller supplied a value that
\* is not None; a supplied zero is sent like any other value.
C1_FilterSentIffSupplied ==
  ListingSent =>
    \A k \in OptionalKeys(method) : (k \in DOMAIN SentParams) <=> ~IsNone(args.filters[k])

\* C2: a listing operation called with is_completed=0 (or is_started=0) hands
\* the session query parameters that hold that key with the value 0, and a
\* listing operation called with no optional filter hands it no query
\* parameters.
C2_ZeroFlagSentAndNoFiltersNoParams ==
  ListingSent =>
    /\ \A k \in {"is_completed", "is_started"} \cap FilterKeys(method) :
         PyEq(args.filters[k], PyInt(0)) =>
           k \in DOMAIN SentParams /\ PyEq(SentParams[k], PyInt(0))
    /\ (\A k \in OptionalKeys(method) : IsNone(args.filters[k])) => DOMAIN SentParams = {}

C2_Witness ==
  /\ ListingSent
  /\ method = "get_projects"
  /\ PyEq(args.filters["is_completed"], PyInt(0))
  /\ ~IsAbsent(kwargs.params)
  /\ kwargs.params = PyDict("is_completed" :> PyInt(0))

\* C3: in the request of a listing operation every list-typed filter the caller
\* supplied is one query value: the decimal numerals of the list's elements in
\* the caller's order, joined by commas, none reordered, merged or dropped.
C3_ListSentCommaJoined ==
  ListingSent =>
    \A k \in ListKeys(method) :
      IsList(args.filters[k]) =>
        /\ k \in DOMAIN SentParams
        /\ PyEq(SentParams[k], PyStr(CommaDecimal(args.filters[k].list)))

\* C4: the URL of every request is <stem>/index.php?/api/v2/<endpoint> with one
\* "/" between the stem and index.php, whether the client was constructed with
\* the stem or with the stem and one trailing "/"; the client constructed with
\* the other of the two forms builds the identical URL for the same call.
C4_SameUrlWithOrWithoutTrailingSlash ==
  pc = "sent" =>
    LET b == settings.base_url
        stem == IF EndsWith(b, "/") THEN SubSeq(b, 1, Len(b) - 1) ELSE b
        twin == IF EndsWith(b, "/") THEN stem ELSE b \o <<"/">>
        other == ClientInit(twin, settings.username, settings.api_key)
        endpoint == SubSeq(kwargs.url, Len(client.base_url) + 1, Len(kwargs.url))
    IN  /\ stem \in BaseStems
        /\ kwargs.url = stem \o <<"/", "index.php?", "/", "api", "/", "v2", "/">> \o endpoint
        /\ SendRequest(other, kwargs.method, endpoint, PyNone, PyNone, PyNone, "as_set").url
             = kwargs.url

C4_Witness ==
  /\ pc = "sent"
  /\ EndsWith(settings.base_url, "/")
  /\ method = "get_case"
  /\ kwargs.url = <<"https:", "/", "/", "x.testrail.io", "/", "index.php?", "/", "api", "/",
                    "v2", "/", "get_case", "/", "1", "2">>

\* C5: the request of an attachment upload, as the session sends it with its
\* default headers merged in, carries no JSON Content-Type header, and carries
\* the file under the field "attachment" with the last segment of the supplied
\* path as its filename.
C5_UploadIsNotJsonAndNamesFile ==
  (pc = "sent" /\ method \in AttachmentNames) =>
    LET wire == WireHeaders(client, kwargs)
    IN  /\ "content-type" \in DOMAIN wire => wire["content-type"] # <<"application/json">>
        /\ ~IsAbsent(kwargs.files)
        /\ DOMAIN kwargs.files.dict = {"attachment"}
        /\ kwargs.files.dict["attachment"].filename = LastSegment(args.file_path)

\* C6: a response with status >= 400 whose body is a JSON object with an
\* "error" field makes the operation fail, with a message that holds the
\* decimal status code and the text of the error field.
C6_ErrorFieldInFailure ==
  (Answered /\ response.status >= 400 /\ HasErrorField(response.body)) =>
    /\ outcome.kind = "raise"
    /\ Contains(outcome.msg, DecimalText(response.status))
    /\ Contains(outcome.msg, PyToStr(response.body.json.dict["error"]))

C6_Witness ==
  /\ Answered
  /\ response.status = 400
  /\ response.body = ErrorBody(<<"Field :name is not a valid test case field.">>)
  /\ outcome.kind = "raise"
  /\ outcome.msg = <<"TestRail API returned HTTP ", "4", "0", "0", ": ",
                     "Field :name is not a valid test case field.">>

\* C7: a response with status >= 400 whose body is not JSON with an "error"
\* field makes the operation fail, with a message that holds the status code
\* followed by the raw text of the response.
C7_RawTextInFailure ==
  (Answered /\ response.status >= 400 /\ ~HasErrorField(response.body)) =>
    /\ outcome.kind = "raise"
    /\ StatusThenText(outcome.msg, response.status, response.body.text)

\* C8: when the client call of a tool, or the tool's own handling of its
\* arguments, raises a failure with message m, the tool returns the mapping
\* {"error": "Error in <name>: m"} with its own registered name, and raises
\* nothing.
C8_ToolReportsFailure ==
  (pc = "done" /\ tool \in DOMAIN Tools /\ outcome.kind = "raise") =>
    result = Return(PyDict("error" :> PyStr(<<"Error in ", tool, ": ">> \o outcome.msg)))

C8_Witness ==
  /\ pc = "done"
  /\ tool = "get_case"
  /\ outcome.kind = "raise"
  /\ result = Return(PyDict("error" :> PyStr(<<"Error in ", "get_case", ": ",
                 "TestRail API returned HTTP ", "5", "0", "0", ": ",
                 "<html>Bad Gateway</html>">>)))

\* C9: when the client call of a tool returns r, the tool returns r itself,
\* also when r is None or the mapping {"text": <raw text>} of an undecodable
\* body.
C9_ToolPassesResultThrough ==
  (pc = "done" /\ tool \in DOMAIN Tools /\ outcome.kind = "return") => result = outcome

C9_Witness ==
  /\ pc = "done"
  /\ tool = "get_project_by_name"
  /\ outcome = Return(PyNone)
  /\ result = Return(PyNone)

\* C10: when the listing call of a find-by-name helper returns entries, the
\* helper returns the first entry in listing order whose name equals the
\* requested string, and returns None, without failing, when no entry has
\* that name or the listing is empty.
C10_FindByNameFirstMatchOrNone ==
  (Answered /\ helper.name \in DOMAIN Helpers /\ response.status < 400) =>
    LET coll == Collection[Helpers[helper.name].listing]
        j == response.body.json
    IN  HasEntries(j, coll) => outcome = Return(FirstMatch(EntriesOf(j, coll), helper.target))

\* the number of payloads the bulk_add_cases call in progress was given
BulkPayloads ==
  IF helper.name = "bulk_add_cases" THEN Len(helper.results) + 1 + Len(helper.todo) ELSE 0

\* C11: bulk_add_cases called with n payloads has issued n add_case requests
\* when it ends, and returns a list of n outcomes: a failed add_case call is an
\* entry of the list, and the calls for the later payloads are still made.
C11_BulkOneOutcomePerPayload ==
  (pc = "done" /\ method = "bulk_add_cases") =>
    /\ nreq = BulkPayloads
    /\ outcome.kind = "return"
    /\ IsList(outcome.value)
    /\ Len(outcome.value.list) = BulkPayloads

\* the methods of the client that are not composite helpers
SingleMethods == DOMAIN Methods \cup {"get_attachment"}

\* a call of one of them is in progress or has ended
SingleCall == helper = NoHelper /\ method \in SingleMethods

\* the request of the call has failed: the session raised, or the remote
\* answered with a status of 400 or more
RequestFailed == nreq > 0 /\ (IsAbsent(response) \/ response.status >= 400)

\* the call ended because the file to attach could not be read
FileUnreadable == outcome.kind = "raise" /\ outcome.exc = "FileNotFoundError"

\* C12 as stated: a call of a method that is not a composite helper has
\* issued exactly one HTTP request when it ends, whether or not the request
\* failed, and a failed request makes the call fail.
C12_ExactlyOneRequest ==
  (pc = "done" /\ SingleCall) =>
    /\ nreq = 1
    /\ RequestFailed => outcome.kind = "raise"

\* C12 amended: a call of a method that is not a composite helper never
\* issues more than one HTTP request; when it ends it has issued exactly one,
\* except an attachment upload whose file could not be read, which has
\* issued none; and a failed request makes the call fail with that failure,
\* which reaches the caller of the client as it is.
C12_OneRequestUnlessFileUnreadable ==
  SingleCall =>
    /\ nreq <= 1
    /\ pc = "done" =>
         /\ nreq = (IF FileUnreadable THEN 0 ELSE 1)
         /\ FileUnreadable => method \in AttachmentNames
         /\ RequestFailed => outcome.kind = "raise"
         /\ tool = "direct" => result = outcome

C12_Witness ==
  /\ pc = "done"
  /\ method = "get_attachment"
  /\ nreq = 1
  /\ response.status = 500
  /\ outcome = Raise("Exception", <<"Failed to get attachment: HTTP ", "5", "0", "0">>)
  /\ result = outcome

\* C13: for a response with a status below 400, _send_request returns the
\* mapping {"text": <raw text>} when the body is not JSON (an empty body
\* included) and the decoded value when it is, and raises nothing.
C13_UndecodableSuccessGivesText ==
  (Answered /\ helper = NoHelper /\ method \in DOMAIN Methods /\ response.status < 400) =>
    outcome = (IF IsNotJson(response.body.json)
               THEN Return(PyDict("text" :> PyStr(response.body.text)))
               ELSE Return(response.body.json))

C13_Witness ==
  /\ Answered
  /\ method = "delete_case"
  /\ response = [status |-> 200, body |-> [text |-> <<>>, json |-> NotJson]]
  /\ outcome = Return(PyDict("text" :> PyStr(<<>>)))

\* a call of wait_for_report is in progress or has ended
WaitCall == method = "wait_for_report"

\* the status field of the result of the last run_report call, None when the
\* call failed or its result is no mapping with that field
ReportStatus ==
  IF ~IsAbsent(response) /\ response.status < 400 /\ IsDict(response.body.json)
  THEN DictGet(response.body.json, "status", PyNone)
  ELSE PyNone

\* the last run_report call failed with a message that holds "still being
\* generated" in any case
StillBeingGenerated ==
  /\ ~IsAbsent(response)
  /\ response.status >= 400
  /\ HasErrorField(response.body)
  /\ Contains(Lower(PyToStr(response.body.json.dict["error"])), <<"still being generated">>)

\* the last run_report call returned a result with a status other than
\* "completed" and "error"
OtherStatus ==
  /\ ~IsAbsent(response)
  /\ response.status < 400
  /\ ~IsNotJson(response.body.json)
  /\ IsDict(response.body.json)
  /\ ~PyEq(ReportStatus, PyStr(<<"completed">>))
  /\ ~PyEq(ReportStatus, PyStr(<<"error">>))

SignedDecimal(n) == IF n < 0 THEN <<"-">> \o DecimalText(0 - n) ELSE DecimalText(n)

\* wait_for_report has failed with the timeout failure naming max_wait_seconds
TimedOut ==
  /\ pc = "done"
  /\ outcome.kind = "raise"
  /\ outcome.msg = <<"Report did not complete within ">>
                   \o SignedDecimal(helper.max_wait_seconds) \o <<" seconds">>

\* C14: when run_report returns a result whose status is "error",
\* wait_for_report fails with the error message the remote supplied, whatever
\* its text, and does not call run_report again.
C14_ReportErrorEndsTheWait ==
  (WaitCall /\ PyEq(ReportStatus, PyStr(<<"error">>))) =>
    /\ pc = "done"
    /\ outcome.kind = "raise"
    /\ "error" \in DOMAIN response.body.json.dict =>
         Contains(outcome.msg, PyToStr(response.body.json.dict["error"]))

\* C15: a call of wait_for_report ends; it has called run_report only while
\* fewer than max_wait_seconds had passed since it started, so not at all
\* when max_wait_seconds <= 0; and when it ends after a poll that returned a
\* status other than "completed" and "error" or failed with "still being
\* generated", or without any poll, it ends with the timeout failure naming
\* max_wait_seconds.
C15_WaitTerminatesWithTimeout ==
  /\ [](WaitCall =>
          /\ pc = "sent" => helper.elapsed < helper.max_wait_seconds
          /\ helper.max_wait_seconds <= 0 => nreq = 0
          /\ (pc = "done" /\ (nreq = 0 \/ OtherStatus \/ StillBeingGenerated)) => TimedOut)
  /\ (WaitCall /\ pc # "done") ~> (WaitCall /\ pc = "done")

C15_Witness ==
  /\ WaitCall
  /\ TimedOut
  /\ helper.max_wait_seconds = 2
  /\ nreq = 2
  /\ StillBeingGenerated

\* C16: wait_for_report returns the result of the first run_report call whose
\* status is "completed", as it is, and calls run_report no more; before
\* every later call of run_report it has slept poll_interval seconds.
C16_FirstCompletedReturned ==
  WaitCall =>
    /\ PyEq(ReportStatus, PyStr(<<"completed">>)) =>
         /\ pc = "done"
         /\ outcome = Return(response.body.json)
         /\ result = outcome
    /\ (pc # "done" \/ outcome.kind = "return") =>
         helper.slept = (nreq - 1) * helper.poll_interval

C16_Witness ==
  /\ WaitCall
  /\ pc = "done"
  /\ nreq = 3
  /\ helper.poll_interval = 1
  /\ helper.slept = 2
  /\ outcome = Return(PyDict("status" :> PyStr(<<"completed">>)))

\* the registry has been constructed
Constructed == phase \notin {"start", "failed"}

\* C17: the registry constructs one client, when it is constructed itself, and
\* none afterwards; the client it holds is never replaced, and the request of
\* every tool call is built by that client.
C17_OneClientNeverReplaced ==
  /\ instances = (IF Constructed THEN 1 ELSE 0)
  /\ Constructed =>
       client = ClientInit(settings.base_url, settings.username, settings.api_key)
  /\ (pc = "sent" /\ tool \in DOMAIN Tools) =>
       SubSeq(kwargs.url, 1, Len(client.base_url)) = client.base_url

C17_Witness ==
  /\ phase = "serving"
  /\ pc = "done"
  /\ tool = "get_projects"
  /\ nreq = 1
  /\ instances = 1

\* C18: once the server has stopped serving, whether run() returned or
\* raised, the session of the registry's client is eventually closed.
C18_StoppedServerReleasesClient == (phase = "stopped") ~> (session = "closed")

\* C19: a second release of the client (close after close, close after
\* __exit__, __del__ after close) raises nothing and leaves the session closed.
C19_SecondReleaseHarmless ==
  closes >= 2 => (session = "closed" /\ released = Return(PyNone))

C19_Witness ==
  /\ closes = 2
  /\ phase = "finalized"
  /\ session = "closed"
  /\ released = Return(PyNone)

\* one of the three settings is unset or empty
Incomplete(e) ==
  \E n \in {"TESTRAIL_URL", "TESTRAIL_USERNAME", "TESTRAIL_API_KEY"} :
    IsAbsent(e[n]) \/ (IsStr(e[n]) /\ Len(e[n].str) = 0)

\* C20: when one of TESTRAIL_URL, TESTRAIL_USERNAME, TESTRAIL_API_KEY is unset
\* or empty, main ends with a failure before the server is created: no client
\* is constructed, no tool is registered, and the server never serves.
C20_IncompleteSettingsStopMain ==
  Incomplete(env) =>
    /\ phase \in {"start", "failed"}
    /\ phase = "failed" => ended.kind = "raise"
    /\ instances = 0
    /\ IsAbsent(client)
    /\ registered = {}
    /\ session = "none"

C20_Witness ==
  /\ phase = "failed"
  /\ env = [TESTRAIL_URL |-> PyStr(<<"https:", "/", "/", "x.testrail.io">>),
            TESTRAIL_USERNAME |-> PyStr(<<"qa@example.com">>),
            TESTRAIL_API_KEY |-> PyStr(<<>>)]
  /\ ended.kind = "raise"
  /\ ended.exc = "ValueError"
  /\ instances = 0

\* the operations of the client: its public methods but close, which releases it
ClientOperations == ClientMethodNames \ {"close"}

\* C21: once the registry is constructed, every operation of the client, the
\* composite helpers and every resource family included, is registered as a
\* tool of the same name.
C21_EveryOperationPublished ==
  Constructed => \A m \in ClientOperations : m \in registered /\ Tools[m].method = m

\* a call of a tool has ended
ToolCallDone == pc = "done" /\ tool \in DOMAIN Tools

\* the call failed because the client has no attribute of the name called
NoSuchMethod ==
  /\ outcome.kind = "raise"
  /\ outcome.exc = "AttributeError"
  /\ Contains(outcome.msg, <<"'TestRailClient' object has no attribute '">>)

\* C22: a call of a registered tool, the find-by-name tools included, is a
\* call of the client method of the tool's name, which the client defines.
C22_ToolCallsItsClientMethod ==
  ToolCallDone =>
    /\ method = tool
    /\ method \in ClientMethodNames
    /\ ~NoSuchMethod

\* C23: every registered tool declares every filter its client method
\* accepts.
C23_ToolDeclaresEveryFilter ==
  \A t \in registered :
    Tools[t].method \in DOMAIN Methods => FilterKeys(Tools[t].method) \subseteq Tools[t].params

\* a delete operation with a soft flag has handed its request to the session
SoftDeleteSent == pc = "sent" /\ helper = NoHelper /\ method \in SoftDeleteNames

\* C24: in the request of a delete operation with a soft flag, a supplied
\* soft value, 0 included, is the query parameter soft, unchanged; without a
\* supplied value there is no such parameter; the HTTP method and the URL are
\* the same either way.
C24_SoftFlagPassedThrough ==
  SoftDeleteSent =>
    LET soft == args.filters["soft"]
    IN  /\ IsNone(soft) => "soft" \notin DOMAIN SentParams
        /\ ~IsNone(soft) => "soft" \in DOMAIN SentParams /\ PyEq(SentParams["soft"], soft)
        /\ kwargs.method = "POST"
        /\ kwargs.url = client.base_url \o <<method, "/">> \o DecimalText(args.ids[1])

C24_Witness ==
  /\ SoftDeleteSent
  /\ tool = "delete_section"
  /\ args.filters["soft"] = PyInt(0)
  /\ SentParams = ("soft" :> PyInt(0))
  /\ kwargs.method = "POST"

\* an upload operation ends without having handed a request to the session:
\* its file could not be read
UploadEndsUnsent == pc = "idle" /\ pc' = "done" /\ method' \in AttachmentNames

\* C25: an attachment upload whose file cannot be read sends no request and
\* raises the I/O failure out of the client; called through its tool it
\* returns the {"error": ...} value.
C25_UnreadableFilePropagates ==
  [][UploadEndsUnsent =>
       /\ nreq' = 0
       /\ kwargs' = NoRequest
       /\ outcome'.kind = "raise"
       /\ outcome'.exc = "FileNotFoundError"
       /\ tool' = "direct" => result' = outcome'
       /\ tool' # "direct" =>
            /\ result'.kind = "return"
            /\ IsDict(result'.value)
            /\ DOMAIN result'.value.dict = {"error"}
            /\ Contains(result'.value.dict["error"].str, outcome'.msg)]_vars

C25_Witness ==
  /\ pc = "done"
  /\ tool = "add_attachment_to_run"
  /\ method = "add_attachment_to_run"
  /\ args.file_path = <<"/", "tmp", "/", "shot.png">>
  /\ nreq = 0
  /\ outcome.kind = "raise"
  /\ outcome.exc = "FileNotFoundError"
  /\ result.kind = "return"
  /\ "error" \in DOMAIN result.value.dict

\* bulk_add_cases is in progress, or has ended after a request
BulkCall == helper.name = "bulk_add_cases"

\* what _send_request returns for a success response
Decoded(resp) ==
  IF IsNotJson(resp.body.json) THEN PyDict("text" :> PyStr(resp.body.text))
  ELSE resp.body.json

\* the remote answers an add_case request of bulk_add_cases with a success
BulkSuccess == BulkCall /\ pc = "waiting" /\ ~IsAbsent(response') /\ response'.status < 400

\* C26: the i-th request of bulk_add_cases is the add_case request for the
\* i-th payload and the given section; the result of every successful request
\* is appended to the results so far, so that a call whose requests all
\* succeed returns one result per payload, in the order of the payloads; a
\* call with no payload sends no request and returns the empty list.
C26_BulkInInputOrder ==
  /\ [](/\ (BulkCall /\ pc = "sent") =>
            /\ nreq = Len(helper.results) + 1
            /\ nreq <= Len(helper.cases_data)
            /\ kwargs.method = "POST"
            /\ kwargs.url = client.base_url \o <<"add_case", "/">> \o DecimalText(helper.section_id)
            /\ kwargs.json = helper.cases_data[nreq]
        /\ (pc = "done" /\ method = "bulk_add_cases" /\ outcome.kind = "return") =>
            IF BulkCall
            THEN /\ nreq = Len(helper.cases_data)
                 /\ Len(outcome.value.list) = Len(helper.cases_data)
            ELSE /\ nreq = 0
                 /\ outcome.value = PyList(<<>>))
  /\ [][BulkSuccess =>
          (IF pc' = "done" THEN outcome'.value.list ELSE helper'.results)
            = Append(helper.results, Decoded(response'))]_vars

C26_Witness ==
  /\ pc = "done"
  /\ method = "bulk_add_cases"
  /\ BulkCall
  /\ helper.section_id = 12
  /\ helper.cases_data = <<CasePayload(2), CasePayload(1)>>
  /\ nreq = 2
  /\ outcome = Return(PyList(<<Entry(1, "Alpha"),
                               PyDict("text" :> PyStr(<<"<html>Bad Gateway</html>">>))>>))

\* the request in flight ends with a failure: the session raises, or the
\* remote answers with a status of 400 or above
RequestFails == pc = "waiting" /\ (IsAbsent(response') \/ response'.status >= 400)

\* the message of that failure
FailureMessage ==
  IF IsAbsent(response') THEN <<"All connection attempts failed">> ELSE ErrorMessage(response')

\* the message holds "still being generated", in any case
Transient(msg) == Contains(Lower(msg), <<"still being generated">>)

\* wait_for_report sleeps poll_interval seconds and goes round its loop again
Retries == helper'.slept = helper.slept + helper.poll_interval

\* C27: wait_for_report sleeps and goes round again after a failure of
\* run_report only when the message of the failure holds "still being
\* generated" in any case, and likewise after its own failure for a report
\* with status "error"; every other failure of run_report ends the call at
\* once with that failure and without another request; and a failed request
\* of any other operation ends the operation with a failure and without
\* another request.
C27_RetryOnlyWhileBeingGenerated ==
  [][/\ (WaitCall /\ RequestFails /\ Retries) => Transient(FailureMessage)
     /\ (WaitCall /\ pc = "waiting" /\ ~RequestFails /\ Retries
           /\ PyEq(ReportStatus', PyStr(<<"error">>))) =>
          Transient(PyToStr(DictGet(response'.body.json, "error", PyStr(<<>>))))
     /\ (WaitCall /\ RequestFails /\ ~Transient(FailureMessage)) =>
          /\ pc' = "done"
          /\ nreq' = nreq
          /\ helper'.slept = helper.slept
          /\ outcome'.kind = "raise"
          /\ outcome'.msg = FailureMessage
     /\ (~WaitCall /\ RequestFails) =>
          /\ pc' = "done"
          /\ nreq' = nreq
          /\ outcome'.kind = "raise"]_vars

C27_Witness ==
  /\ WaitCall
  /\ pc = "sent"
  /\ nreq = 2
  /\ response.status = 400
  /\ response.body = ErrorBody(<<"Report is ", "Still Being Generated">>)
  /\ helper.slept = helper.poll_interval
  /\ helper.elapsed < helper.max_wait_seconds

\* _send_request has built a request and handed it to the session
BuiltBySendRequest == pc = "sent" /\ method # "get_attachment"

\* C29: a request built by _send_request with a file payload carries no JSON
\* body, and a supplied body map goes with it as form fields; one built
\* without a file payload carries every supplied body map, the empty one
\* included, as its JSON body; no request carries both a JSON body and a file
\* payload.
C29_BodyFollowsFileBranch ==
  BuiltBySendRequest =>
    /\ ~IsAbsent(kwargs.files) =>
         /\ IsAbsent(kwargs.json)
         /\ ~IsNone(args.data) => kwargs.data = args.data
    /\ (IsAbsent(kwargs.files) /\ ~IsNone(args.data)) => kwargs.json = args.data
    /\ IsAbsent(kwargs.json) \/ IsAbsent(kwargs.files)

\* the default headers of the session and its credentials are those the
\* client was constructed with
AsConstructed == client = ClientInit(settings.base_url, settings.username, settings.api_key)

\* C28: every request handed to the session goes out with the Authorization
\* header, a file upload included, and every request without a file payload,
\* also one sent after a file upload, with Content-Type: application/json; no
\* step changes the default headers of the session.
C28_UploadLeavesSessionHeaders ==
  /\ [](pc = "sent" =>
          LET wire == WireHeaders(client, kwargs)
          IN  /\ "authorization" \in DOMAIN wire
              /\ wire["authorization"] = <<"Basic ">> \o client.auth
              /\ IsAbsent(kwargs.files) =>
                   /\ "content-type" \in DOMAIN wire
                   /\ wire["content-type"] = <<"application/json">>)
  /\ [](Constructed => AsConstructed)
  /\ [][Constructed => client'.headers = client.headers]_vars

C28_Witness ==
  /\ uploaded
  /\ pc = "sent"
  /\ method = "add_case"
  /\ IsAbsent(kwargs.files)
  /\ ~IsAbsent(kwargs.json)
  /\ WireHeaders(client, kwargs) =
       ("content-type" :> <<"application/json">>)
       @@ ("authorization" :> (<<"Basic ">> \o B64(<<"qa@example.com", ":", "k3y">>)))

\* the requests _send_request builds from the arguments of invocation i and
\* the values the client was constructed with
OwnRequests(i) ==
  {MethodRequest(ClientInit(settings.base_url, settings.username, settings.api_key),
                 threads[i].method, threads[i].args, keycase) : keycase \in HeaderKeyCases}

\* C30: with two tool invocations in progress at once, the request each
\* builds, and the one the session sends for it, is the request of its own
\* arguments and the construction-time values of the client; the response it
\* classifies answers its own request, and its result is what the tool makes
\* of that response alone, as when the invocation runs by itself; the client
\* stays as constructed, and a step of one invocation leaves the locals of
\* the other as they are.
C30_ConcurrentCallsIndependent ==
  /\ [](/\ AsConstructed
        /\ session = "open"
        /\ \A i \in Invocations :
             LET t == threads[i]
             IN  /\ t.pc = "built" => t.kwargs \in OwnRequests(i)
                 /\ t.pc = "waiting" => t.wire \in OwnRequests(i)
                 /\ t.pc = "done" =>
                      /\ t.wire \in OwnRequests(i)
                      /\ IsAbsent(t.response) => t.outcome.kind = "raise"
                      /\ ~IsAbsent(t.response) =>
                           /\ t.response.request = t.wire
                           /\ t.outcome = Classify(t.response)
                      /\ t.result = Delivered(t.tool, t.outcome))
  /\ [][/\ client' = client
        /\ session' = session
        /\ \A i, j \in Invocations :
             (i # j /\ threads'[i] # threads[i]) => threads'[j] = threads[j]]_vars

C30_Witness ==
  /\ threads[1].pc = "waiting"
  /\ threads[1].tool = "delete_case"
  /\ threads[1].args.ids = <<12>>
  /\ threads[2].pc = "done"
  /\ threads[2].tool = "add_attachment_to_case"
  /\ threads[2].args.ids = <<1>>
  /\ threads[2].response.status = 400
  /\ threads[2].response.request.url # threads[1].wire.url
  /\ "error" \in DOMAIN threads[2].result.value.dict

====
